---- MODULE Spec2Model ----
(***************************************************************************)
(* Model of the reactive entity/fetch coordination layer of                *)
(* src/src/shared/HAContext.tsx: the localStorage cache store              *)
(* (loadFromCache / saveToCache) and one useCachedFetch consumer with its  *)
(* generation counter fetchIdRef.                                          *)
(*                                                                         *)
(* Time is the value of Date.now() in milliseconds; the clock advances in  *)
(* steps of TickMs.  A value of type T | undefined is a string, "absent"   *)
(* standing for undefined.  All fetched values are truthy (the fetchers    *)
(* return arrays).                                                         *)
(***************************************************************************)
EXTENDS Integers, FiniteSets, Sequences, TLC

\* ---------------------------------------------------------------- bounds
MaxTicks == 3
MaxFetches == 2

TickMs == 12 * 60 * 60 * 1000

\* ------------------------------------------------------------- constants
CACHE_EXPIRY_MS == 24 * 60 * 60 * 1000

Keys == {"k1", "k2"}
Values == {"v1", "v2"}
Absent == "absent"
NoError == "none"
FetchError == "error"

\* A localStorage slot: no item, an item that is not a serialized CacheEntry,
\* or a serialized CacheEntry {data, timestamp}.
NoEntry == [kind |-> "none", data |-> Absent, timestamp |-> 0]
Corrupt == [kind |-> "corrupt", data |-> Absent, timestamp |-> 0]
CacheEntry(d, t) == [kind |-> "entry", data |-> d, timestamp |-> t]

VARIABLES
    now,            \* Date.now()
    storage,        \* localStorage, by cache key (the prefix is left implicit)
    storageFails,   \* TRUE while localStorage access throws
    mounted,        \* the consumer has rendered
    cacheKey,       \* the cacheKey argument of the latest render
    data,           \* useState data
    isFresh,        \* useState isFresh
    isFetching,     \* useState isFetching
    error,          \* useState error
    fetchIdRef,     \* fetchIdRef.current
    inflight,       \* pending doFetch calls: [id, key] captured at the call
    effectPending,  \* the deps effect of the latest render has not run yet
    renderThrew,    \* an exception escaped the useState initializer
    lastOutcome,    \* history: outcome of the last-issued fetch
    dataOrigin,     \* history: where data came from
    observed,       \* history: the cache keys this consumer has rendered with
    lateResult,     \* history: result of a superseded fetch that resolved
                    \* after the last-issued fetch had completed
    \* ---- useWeatherForecast: timers and subscription
    tz,             \* the local time zone: "fixed" offset, or "dst" with a
                    \* fall-back transition at DstEndsAt
    timers,         \* pending setTimeout timers: [kind, at]
    debounceTimerRef, \* debounceTimerRef.current: the deadline of the timer
                    \* it names, NoTimer for null
    hourlyTimerRef, \* hourlyTimerRef.current, likewise
    subscribed,     \* debouncedRefetch is registered for the entity
    lastTrigger,    \* history: what made the latest doFetch call
    lastPushAt,     \* history: time of the latest notification, -1 if none
    burstLen,       \* history: notifications in the current burst
    burstFires,     \* history: debounce refetches since the burst began
    pushCount,      \* history: notifications delivered to the consumer
    \* ---- useMultiCalendarEvents: the fetcher over several sources
    connection,     \* hass.connection is present
    entityIds,      \* the entityIds argument: a sequence of source ids
    fetcherPhase,   \* where the pending fetcher call stands
    requests,       \* per position of entityIds: state of its backend request
    responses,      \* per position: the events its request returned
    issued,         \* history: backend requests sent so far
    order,          \* history: positions in the order their requests ended
    \* ---- BaseHACard: the entity listener registry
    listeners,      \* _entityChangeListeners: entity id -> listeners, in
                    \* insertion order
    handles,        \* the unsubscribe closures returned so far
    lastOp,         \* history: the latest registry operation
    delivered,      \* history: listener calls of the latest notification
    notifyThrew,    \* history: the latest notification raised
    \* ---- two useCachedFetch consumers side by side
    hooks,          \* per consumer: its hook state and fetchIdRef
    calls,          \* pending doFetch calls of both consumers
    issueSeq,       \* history: doFetch calls so far, over both consumers
    lastFor,        \* history: per cache key, the doFetch call issued last
    \* ---- useEntity
    entMounted,     \* the useEntity consumer has rendered
    entId,          \* its entityId argument
    entity,         \* useState entity: the value useEntity returns
    entSubscribed,  \* its effect has run: the listener is registered
    entityOf,       \* history: the entity id whose state entity holds,
                    \* "none" when it is absent
    hassStates,     \* store.hass.states, by entity id
    lastPushed,     \* history: per entity id, the latest state notified
    \* ---- useMultiCalendarEvents, earlier version: the date-range cache
    dateRangeKey,   \* dateRangeKey of the latest render
    cacheRef,       \* cacheRef.current: date range -> events, Absent if none
    shouldInvalidateCacheRef, \* shouldInvalidateCacheRef.current
    inFlightCountRef, \* inFlightCountRef.current
    refreshing,     \* useState refreshing
    events,         \* useState events
    eventsDateRangeKey, \* useState eventsDateRangeKey, "" at first
    lastCleared,    \* history: the ranges whose entries the latest commit
                    \* removed
    \* ---- BaseHACard: the backend subscription of the card
    hasHass,        \* this._hass is set
    hasEntities,    \* _getEntityIds() is not empty
    domState,       \* "new", "connected" or "disconnected"
    subscribeId,    \* this._subscribeId
    unsubscribeRef, \* this._unsubscribe: the subscription it ends, NoSub
                    \* for undefined
    subRequests,    \* pending subscribeMessage requests, by subscribe id
    createdSubs,    \* history: backend subscriptions created so far
    activeSubs,     \* backend subscriptions that have not been ended
    unsubCalls      \* history: per subscription, calls of its unsubscribe

vars == <<now, storage, storageFails, mounted, cacheKey, data, isFresh,
          isFetching, error, fetchIdRef, inflight, effectPending, renderThrew,
          lastOutcome, dataOrigin, observed, lateResult>>

timerVars == <<tz, timers, debounceTimerRef, hourlyTimerRef, subscribed,
               lastTrigger, lastPushAt, burstLen, burstFires, pushCount>>

aggVars == <<connection, entityIds, fetcherPhase, requests, responses, issued,
             order>>

regVars == <<listeners, handles, lastOp, delivered, notifyThrew>>

pairVars == <<hooks, calls, issueSeq, lastFor>>

entVars == <<entMounted, entId, entity, entSubscribed, entityOf, hassStates,
             lastPushed>>

rangeVars == <<dateRangeKey, cacheRef, shouldInvalidateCacheRef,
               inFlightCountRef, refreshing, events, eventsDateRangeKey,
               lastCleared>>

cardVars == <<hasHass, hasEntities, domState, subscribeId, unsubscribeRef,
              subRequests, createdSubs, activeSubs, unsubCalls>>

moreVars == <<pairVars, entVars, rangeVars, cardVars>>

\* ------------------------------------------------------------ cache store

\* Variant of LoadTry that already expires an entry at now - timestamp = TTL.
LoadTryExpiresAtTTL(st, key, t, fails) ==
    IF fails
      THEN [ret |-> Absent, threw |-> TRUE, storage |-> st]
    ELSE IF st[key].kind = "none"
      THEN [ret |-> Absent, threw |-> FALSE, storage |-> st]
    ELSE IF st[key].kind = "corrupt"
      THEN [ret |-> Absent, threw |-> TRUE, storage |-> st]
    ELSE IF t - st[key].timestamp >= CACHE_EXPIRY_MS
      THEN [ret |-> Absent, threw |-> FALSE,
            storage |-> [st EXCEPT ![key] = NoEntry]]
    ELSE [ret |-> st[key].data, threw |-> FALSE, storage |-> st]

\* The try block of loadFromCache: what it returns or that it throws, and the
\* storage it leaves.
LoadTry(st, key, t, fails) ==
    IF fails
      THEN [ret |-> Absent, threw |-> TRUE, storage |-> st]
    ELSE IF st[key].kind = "none"
      THEN [ret |-> Absent, threw |-> FALSE, storage |-> st]
    ELSE IF st[key].kind = "corrupt"
      THEN [ret |-> Absent, threw |-> TRUE, storage |-> st]
    ELSE IF t - st[key].timestamp > CACHE_EXPIRY_MS
      THEN [ret |-> Absent, threw |-> FALSE,
            storage |-> [st EXCEPT ![key] = NoEntry]]
    ELSE [ret |-> st[key].data, threw |-> FALSE, storage |-> st]

\* Variant of loadFromCache without the catch block.
LoadNoCatch(st, key, t, fails) == LoadTry(st, key, t, fails)

\* loadFromCache: the try block with its catch, which returns undefined.
loadFromCache(st, key, t, fails) ==
    LET r == LoadTry(st, key, t, fails)
    IN  IF r.threw
          THEN [ret |-> Absent, threw |-> FALSE, storage |-> r.storage]
          ELSE r

\* saveToCache: setItem of {data, timestamp: Date.now()}; a throw is swallowed.
saveToCache(st, key, d, t, fails) ==
    IF fails THEN st ELSE [st EXCEPT ![key] = CacheEntry(d, t)]

\* ----------------------------------------------------------------- status
\* Variant of Status that does not look at isFresh.
StatusNoRefreshing(d, fresh, fetching) ==
    IF d = Absent /\ fetching THEN "loading"
    ELSE IF d # Absent /\ fetching THEN "cached"
    ELSE "ready"

\* The status useMemo of useCachedFetch.
Status(d, fresh, fetching) ==
    IF d = Absent /\ fetching THEN "loading"
    ELSE IF d # Absent /\ ~fresh /\ fetching THEN "cached"
    ELSE IF d # Absent /\ fresh /\ fetching THEN "refreshing"
    ELSE "ready"

status == Status(data, isFresh, isFetching)

\* ------------------------------------------------------------------- Init
NoTimer == -1

\* No forecast consumer: no timer, no subscription.
TimersIdle ==
    /\ tz = "fixed"
    /\ timers = {}
    /\ debounceTimerRef = NoTimer
    /\ hourlyTimerRef = NoTimer
    /\ subscribed = FALSE
    /\ lastTrigger = "none"
    /\ lastPushAt = -1
    /\ burstLen = 0
    /\ burstFires = 0
    /\ pushCount = 0

\* No multi-source consumer: no fetcher call, no request.
AggIdle ==
    /\ connection = TRUE
    /\ entityIds = <<>>
    /\ fetcherPhase = "idle"
    /\ requests = <<>>
    /\ responses = <<>>
    /\ issued = 0
    /\ order = <<>>

NoOp == [op |-> "none", entityId |-> "none", arg |-> "none"]

\* new Map()
EmptyMap == [id \in {} |-> <<>>]

\* A card whose registry is as constructed: an empty Map.
RegIdle ==
    /\ listeners = EmptyMap
    /\ handles = {}
    /\ lastOp = NoOp
    /\ delivered = <<>>
    /\ notifyThrew = FALSE

Consumers == {"A", "B"}

\* The hook state of a consumer that has not rendered.
HookIdle ==
    [mounted |-> FALSE, key |-> "k1", data |-> Absent, isFresh |-> FALSE,
     isFetching |-> FALSE, error |-> NoError, fetchIdRef |-> 0]

NoCall == [seq |-> 0, outcome |-> "none"]

PairIdle ==
    /\ hooks = [c \in Consumers |-> HookIdle]
    /\ calls = {}
    /\ issueSeq = 0
    /\ lastFor = [k \in Keys |-> NoCall]

EntityIds == {"sensor.a", "sensor.b"}

\* No useEntity consumer, and a store without entity states.
EntIdle ==
    /\ entMounted = FALSE
    /\ entId = "sensor.a"
    /\ entity = Absent
    /\ entSubscribed = FALSE
    /\ entityOf = "none"
    /\ hassStates = [id \in EntityIds |-> Absent]
    /\ lastPushed = [id \in EntityIds |-> "none"]

DateRanges == {"r1", "r2"}

\* No multi-calendar consumer of the earlier version.
RangeIdle ==
    /\ dateRangeKey = "r1"
    /\ cacheRef = [r \in DateRanges |-> Absent]
    /\ shouldInvalidateCacheRef = FALSE
    /\ inFlightCountRef = 0
    /\ refreshing = FALSE
    /\ events = Absent
    /\ eventsDateRangeKey = ""
    /\ lastCleared = {}

MaxSubscribes == 3
SubIds == 1..MaxSubscribes
NoSub == 0

\* A card that was constructed and nothing else.
CardIdle ==
    /\ hasHass = FALSE
    /\ hasEntities = TRUE
    /\ domState = "new"
    /\ subscribeId = 0
    /\ unsubscribeRef = NoSub
    /\ subRequests = {}
    /\ createdSubs = {}
    /\ activeSubs = {}
    /\ unsubCalls = [r \in SubIds |-> 0]

MoreIdle == PairIdle /\ EntIdle /\ RangeIdle /\ CardIdle

InitStorage ==
    [Keys -> {NoEntry, Corrupt, CacheEntry("v1", 0)}]

Init ==
    /\ now = 0
    /\ storage \in InitStorage
    /\ storageFails = FALSE
    /\ mounted = FALSE
    /\ cacheKey = "k1"
    /\ data = Absent
    /\ isFresh = FALSE
    /\ isFetching = FALSE
    /\ error = NoError
    /\ fetchIdRef = 0
    /\ inflight = {}
    /\ effectPending = FALSE
    /\ renderThrew = FALSE
    /\ lastOutcome = "none"
    /\ dataOrigin = [src |-> "none", key |-> "k1"]
    /\ observed = {}
    /\ lateResult = "none"
    /\ TimersIdle
    /\ AggIdle
    /\ RegIdle
    /\ MoreIdle

\* ---------------------------------------------------------------- actions

\* Date.now() advances.
Tick ==
    /\ now < MaxTicks * TickMs
    /\ now' = now + TickMs
    /\ UNCHANGED <<storage, storageFails, mounted, cacheKey, data, isFresh,
                   isFetching, error, fetchIdRef, inflight, effectPending,
                   renderThrew, lastOutcome, dataOrigin, observed, lateResult>>

\* localStorage starts or stops throwing (access denied, quota exceeded).
StorageFault ==
    /\ storageFails' = ~storageFails
    /\ UNCHANGED <<now, storage, mounted, cacheKey, data, isFresh, isFetching,
                   error, fetchIdRef, inflight, effectPending, renderThrew,
                   lastOutcome, dataOrigin, observed, lateResult>>

\* First render of a useCachedFetch consumer with cacheKey k: the useState
\* initializers run, data is loadFromCache(cacheKey), and the deps effect is
\* scheduled.
Mount(k) ==
    /\ ~mounted
    /\ LET r == loadFromCache(storage, k, now, storageFails)
       IN  /\ data' = r.ret
           /\ storage' = r.storage
           /\ renderThrew' = r.threw
           /\ dataOrigin' = [src |-> IF r.ret = Absent THEN "none" ELSE "cache",
                             key |-> k]
    /\ mounted' = TRUE
    /\ cacheKey' = k
    /\ isFresh' = FALSE
    /\ isFetching' = FALSE
    /\ error' = NoError
    /\ fetchIdRef' = 0
    /\ effectPending' = TRUE
    /\ observed' = {k}
    /\ UNCHANGED <<now, storageFails, inflight, lastOutcome, lateResult>>

\* A later render with another cacheKey (and so other deps): hook state is
\* kept, the deps effect is scheduled.  A pending effect is flushed before the
\* next render, so there is none pending here.
KeyChange(k) ==
    /\ mounted
    /\ ~effectPending
    /\ k # cacheKey
    /\ cacheKey' = k
    /\ effectPending' = TRUE
    /\ observed' = observed \cup {k}
    /\ UNCHANGED <<now, storage, storageFails, mounted, data, isFresh,
                   isFetching, error, fetchIdRef, inflight, renderThrew,
                   lastOutcome, dataOrigin, lateResult>>

\* doFetch up to its await: take the next fetch id, set isFetching, clear the
\* error, call the fetcher of the latest render.
DoFetchStart ==
    /\ fetchIdRef' = fetchIdRef + 1
    /\ isFetching' = TRUE
    /\ error' = NoError
    /\ inflight' = inflight \cup {[id |-> fetchIdRef + 1, key |-> cacheKey]}
    /\ lastOutcome' = "pending"

\* The deps effect runs doFetch (on mount and after the deps changed).
RunEffect ==
    /\ mounted
    /\ effectPending
    /\ fetchIdRef < MaxFetches
    /\ DoFetchStart
    /\ effectPending' = FALSE
    /\ UNCHANGED <<now, storage, storageFails, mounted, cacheKey, data,
                   isFresh, renderThrew, dataOrigin, observed, lateResult>>

\* refetch() called by the consumer, a debounce timer or the hourly timer; these
\* exist once the mount effects have run.
Refetch ==
    /\ mounted
    /\ fetchIdRef > 0
    /\ fetchIdRef < MaxFetches
    /\ DoFetchStart
    /\ UNCHANGED <<now, storage, storageFails, mounted, cacheKey, data,
                   isFresh, effectPending, renderThrew, dataOrigin, observed,
                   lateResult>>

\* Variant of CommitSuccess without the fetchId check (last-completed-wins).
CommitWithoutTokenCheck(f, result) ==
    /\ data' = result
    /\ isFresh' = TRUE
    /\ storage' = saveToCache(storage, f.key, result, now, storageFails)
    /\ dataOrigin' = [src |-> "fetch", key |-> f.key]
    /\ isFetching' = FALSE
    /\ lastOutcome' = IF f.id = fetchIdRef THEN result ELSE lastOutcome
    /\ UNCHANGED error

\* Variant of CommitSuccess whose finally block does not clear isFetching.
CommitLeavesFetching(f, result) ==
    IF f.id = fetchIdRef
      THEN /\ data' = result
           /\ isFresh' = TRUE
           /\ storage' = saveToCache(storage, f.key, result, now, storageFails)
           /\ dataOrigin' = [src |-> "fetch", key |-> f.key]
           /\ lastOutcome' = result
           /\ UNCHANGED <<error, isFetching>>
      ELSE UNCHANGED <<data, isFresh, storage, dataOrigin, isFetching,
                       lastOutcome, error>>

\* Variant of CommitSuccess in which a throwing saveToCache reaches the catch
\* block of doFetch.
CommitSaveErrorSurfaces(f, result) ==
    IF f.id = fetchIdRef
      THEN /\ data' = result
           /\ isFresh' = TRUE
           /\ storage' = saveToCache(storage, f.key, result, now, storageFails)
           /\ dataOrigin' = [src |-> "fetch", key |-> f.key]
           /\ isFetching' = FALSE
           /\ lastOutcome' = result
           /\ error' = IF storageFails THEN FetchError ELSE error
      ELSE UNCHANGED <<data, isFresh, storage, dataOrigin, isFetching,
                       lastOutcome, error>>

\* doFetch after the await resolved: the try block and the finally block.
CommitSuccess(f, result) ==
    IF f.id = fetchIdRef
      THEN /\ data' = result
           /\ isFresh' = TRUE
           /\ storage' = saveToCache(storage, f.key, result, now, storageFails)
           /\ dataOrigin' = [src |-> "fetch", key |-> f.key]
           /\ isFetching' = FALSE
           /\ lastOutcome' = result
           /\ UNCHANGED error
      ELSE UNCHANGED <<data, isFresh, storage, dataOrigin, isFetching,
                       lastOutcome, error>>

\* Variant of CommitFailure that sets the error whatever the token.
CommitFailureWithoutTokenCheck(f) ==
    /\ error' = FetchError
    /\ isFetching' = IF f.id = fetchIdRef THEN FALSE ELSE isFetching
    /\ lastOutcome' = IF f.id = fetchIdRef THEN "failed" ELSE lastOutcome
    /\ UNCHANGED <<data, isFresh, storage, dataOrigin>>

\* Variant of CommitFailure that drops the shown data on an error.
CommitFailureClearsData(f) ==
    IF f.id = fetchIdRef
      THEN /\ error' = FetchError
           /\ isFetching' = FALSE
           /\ lastOutcome' = "failed"
           /\ data' = Absent
           /\ dataOrigin' = [src |-> "none", key |-> f.key]
           /\ UNCHANGED <<isFresh, storage>>
      ELSE UNCHANGED <<data, isFresh, storage, dataOrigin, isFetching,
                       lastOutcome, error>>

\* doFetch after the await rejected: the catch block and the finally block.
CommitFailure(f) ==
    IF f.id = fetchIdRef
      THEN /\ error' = FetchError
           /\ isFetching' = FALSE
           /\ lastOutcome' = "failed"
           /\ UNCHANGED <<data, isFresh, storage, dataOrigin>>
      ELSE UNCHANGED <<data, isFresh, storage, dataOrigin, isFetching,
                       lastOutcome, error>>

\* The fetcher of pending call f resolves with result.
FetchResolves(f, result) ==
    /\ mounted
    /\ f \in inflight
    /\ inflight' = inflight \ {f}
    /\ CommitSuccess(f, result)
    /\ lateResult' = IF f.id # fetchIdRef /\ lastOutcome # "pending"
                       THEN result ELSE lateResult
    /\ UNCHANGED <<now, storageFails, mounted, cacheKey, fetchIdRef,
                   effectPending, renderThrew, observed>>

\* The fetcher of pending call f rejects.
FetchRejects(f) ==
    /\ mounted
    /\ f \in inflight
    /\ inflight' = inflight \ {f}
    /\ CommitFailure(f)
    /\ UNCHANGED <<now, storageFails, mounted, cacheKey, fetchIdRef,
                   effectPending, renderThrew, observed, lateResult>>

\* The page is reloaded: hook state and pending calls are gone, localStorage
\* and the clock are not.
Reload ==
    /\ mounted
    /\ mounted' = FALSE
    /\ cacheKey' = "k1"
    /\ data' = Absent
    /\ isFresh' = FALSE
    /\ isFetching' = FALSE
    /\ error' = NoError
    /\ fetchIdRef' = 0
    /\ inflight' = {}
    /\ effectPending' = FALSE
    /\ lastOutcome' = "none"
    /\ dataOrigin' = [src |-> "none", key |-> "k1"]
    /\ observed' = {}
    /\ lateResult' = "none"
    /\ UNCHANGED <<now, storage, storageFails, renderThrew>>

\* The steps of a bare useCachedFetch consumer; it has no timers.
Next ==
    \/ Tick /\ UNCHANGED <<timerVars, aggVars, regVars, moreVars>>
    \/ StorageFault /\ UNCHANGED <<timerVars, aggVars, regVars, moreVars>>
    \/ \E k \in Keys :
          Mount(k) /\ UNCHANGED <<timerVars, aggVars, regVars, moreVars>>
    \/ \E k \in Keys :
          KeyChange(k) /\ UNCHANGED <<timerVars, aggVars, regVars, moreVars>>
    \/ RunEffect /\ UNCHANGED <<timerVars, aggVars, regVars, moreVars>>
    \/ Refetch /\ UNCHANGED <<timerVars, aggVars, regVars, moreVars>>
    \/ \E f \in inflight, v \in Values :
          /\ FetchResolves(f, v)
          /\ UNCHANGED <<timerVars, aggVars, regVars, moreVars>>
    \/ \E f \in inflight :
          FetchRejects(f) /\ UNCHANGED <<timerVars, aggVars, regVars, moreVars>>
    \/ Reload /\ UNCHANGED <<timerVars, aggVars, regVars, moreVars>>

Spec == Init /\ [][Next]_vars

\* A pending call of the consumer completes, by success or by failure.
FetchCompletes ==
    /\ \E f \in inflight :
          \/ \E v \in Values : FetchResolves(f, v)
          \/ FetchRejects(f)
    /\ UNCHANGED <<timerVars, aggVars, regVars, moreVars>>

\* The steps of the consumer at a fixed time and with a working localStorage:
\* renders, doFetch calls, completions and reloads.
LiveNext ==
    \/ \E k \in Keys :
          Mount(k) /\ UNCHANGED <<timerVars, aggVars, regVars, moreVars>>
    \/ \E k \in Keys :
          KeyChange(k) /\ UNCHANGED <<timerVars, aggVars, regVars, moreVars>>
    \/ RunEffect /\ UNCHANGED <<timerVars, aggVars, regVars, moreVars>>
    \/ Refetch /\ UNCHANGED <<timerVars, aggVars, regVars, moreVars>>
    \/ FetchCompletes
    \/ Reload /\ UNCHANGED <<timerVars, aggVars, regVars, moreVars>>

\* The consumer where the backend answers every request in the end: no call
\* stays pending for ever.
LiveSpec == Init /\ [][LiveNext]_vars /\ WF_vars(FetchCompletes)

\* =================================================== useWeatherForecast
\* One useWeatherForecast consumer: useCachedFetch under cache key "k1", the
\* debounce timer fed by the entity subscription, and the hourly timer.
\* A timer fires at its deadline: while a timer is due, time does not advance
\* and no notification is delivered.

MaxHours == 2
MaxRefetches == 3
MaxBurst == 3
MaxPushes == 4

HourMs == 60 * 60 * 1000
DebounceMs == 500
StepMs == DebounceMs \div 2

\* With tz = "dst" local time is one hour ahead until DstEndsAt and falls back
\* by one hour there.
DstEndsAt == 1 * HourMs

EntityId == "weather.home"
Entities == {"weather.home", "sun.sun"}
ForecastKey == "k1"

InitTimes == {0, HourMs - StepMs}

\* Date: local time of instant t.
LocalTime(t) == t + (IF tz = "dst" /\ t < DstEndsAt THEN HourMs ELSE 0)

\* nextHour.getTime() after nextHour.setHours(now.getHours() + 1, 0, 0, 0): the
\* instant of the next full hour of local time; a local time that occurs
\* twice names its first occurrence.
NextHour(t) ==
    LET wall == ((LocalTime(t) \div HourMs) + 1) * HourMs
    IN  IF tz = "dst" /\ wall - HourMs < DstEndsAt THEN wall - HourMs ELSE wall

Timer(kind, at) == [kind |-> kind, at |-> at]

\* clearTimeout(ref) when ref is set.
ClearTimer(ts, kind, ref) ==
    IF ref # NoTimer THEN ts \ {Timer(kind, ref)} ELSE ts

\* Variant of debouncedRefetch that does not clear the pending timer.
DebounceNoClear(ts, ref, t) == ts \cup {Timer("debounce", t + DebounceMs)}

\* debouncedRefetch: the timers after clearTimeout and setTimeout(.., 500).
debouncedRefetch(ts, ref, t) ==
    ClearTimer(ts, "debounce", ref) \cup {Timer("debounce", t + DebounceMs)}

\* scheduleHourlyRefetch: the timers after clearTimeout and
\* setTimeout(.., msUntilNextHour).
scheduleHourlyRefetch(ts, ref, t) ==
    ClearTimer(ts, "hourly", ref) \cup {Timer("hourly", NextHour(t))}

NoTimerDue == \A t \in timers : t.at > now

TimerInit ==
    /\ now \in InitTimes
    /\ tz \in {"fixed", "dst"}
    /\ storage \in {[k \in Keys |-> IF k = ForecastKey THEN e ELSE NoEntry] :
                      e \in {NoEntry, CacheEntry("v1", 0)}}
    /\ storageFails = FALSE
    /\ mounted = FALSE
    /\ cacheKey = ForecastKey
    /\ data = Absent
    /\ isFresh = FALSE
    /\ isFetching = FALSE
    /\ error = NoError
    /\ fetchIdRef = 0
    /\ inflight = {}
    /\ effectPending = FALSE
    /\ renderThrew = FALSE
    /\ lastOutcome = "none"
    /\ dataOrigin = [src |-> "none", key |-> ForecastKey]
    /\ observed = {}
    /\ lateResult = "none"
    /\ timers = {}
    /\ debounceTimerRef = NoTimer
    /\ hourlyTimerRef = NoTimer
    /\ subscribed = FALSE
    /\ lastTrigger = "none"
    /\ lastPushAt = -1
    /\ burstLen = 0
    /\ burstFires = 0
    /\ pushCount = 0
    /\ AggIdle
    /\ RegIdle
    /\ MoreIdle

\* First render: useCachedFetch's first render, and two fresh timer refs.
\* The consumer is mounted anew only while it has not fetched yet.
ForecastMount ==
    /\ fetchIdRef = 0
    /\ Mount(ForecastKey)
    /\ debounceTimerRef' = NoTimer
    /\ hourlyTimerRef' = NoTimer
    /\ UNCHANGED <<tz, timers, subscribed, lastTrigger, lastPushAt, burstLen,
                   burstFires, pushCount>>

\* The effects of the first render, in hook order: useCachedFetch's deps
\* effect (doFetch), the hourly effect (scheduleHourlyRefetch) and the
\* subscription effect (subscribeToEntity).
ForecastEffects ==
    /\ mounted
    /\ effectPending
    /\ fetchIdRef < MaxRefetches
    /\ DoFetchStart
    /\ effectPending' = FALSE
    /\ timers' = scheduleHourlyRefetch(timers, hourlyTimerRef, now)
    /\ hourlyTimerRef' = NextHour(now)
    /\ subscribed' = TRUE
    /\ lastTrigger' = "effect"
    /\ UNCHANGED <<now, storage, storageFails, mounted, cacheKey, data,
                   isFresh, renderThrew, dataOrigin, observed, lateResult,
                   tz, debounceTimerRef, lastPushAt, burstLen, burstFires,
                   pushCount>>

\* A state change of entity e is pushed: the registry calls debouncedRefetch
\* when e is the subscribed entity.
Push(e) ==
    /\ NoTimerDue
    /\ IF subscribed /\ e = EntityId
         THEN /\ (lastPushAt >= 0 /\ now - lastPushAt < DebounceMs)
                    => burstLen < MaxBurst
              /\ timers' = debouncedRefetch(timers, debounceTimerRef, now)
              /\ debounceTimerRef' = now + DebounceMs
              /\ lastPushAt' = now
              /\ pushCount < MaxPushes
              /\ pushCount' = pushCount + 1
              /\ IF lastPushAt >= 0 /\ now - lastPushAt < DebounceMs
                   THEN burstLen' = burstLen + 1 /\ UNCHANGED burstFires
                   ELSE burstLen' = 1 /\ burstFires' = 0
         ELSE UNCHANGED <<timers, debounceTimerRef, lastPushAt, burstLen,
                          burstFires, pushCount>>
    /\ UNCHANGED <<vars, tz, hourlyTimerRef, subscribed, lastTrigger>>

\* Variant of DebounceFires that drops the cache entry before refetching.
DebounceFiresInvalidating ==
    \E t \in timers :
        /\ t.kind = "debounce"
        /\ t.at <= now
        /\ fetchIdRef < MaxRefetches
        /\ timers' = timers \ {t}
        /\ DoFetchStart
        /\ storage' = [storage EXCEPT ![cacheKey] = NoEntry]
        /\ lastTrigger' = "debounce"
        /\ burstFires' = burstFires + 1
        /\ UNCHANGED <<now, storageFails, mounted, cacheKey, data,
                       isFresh, effectPending, renderThrew, dataOrigin,
                       observed, lateResult, tz, debounceTimerRef,
                       hourlyTimerRef, subscribed, lastPushAt, burstLen,
                       pushCount>>

\* The debounce timer fires: its callback calls refetch().
DebounceFires ==
    \E t \in timers :
        /\ t.kind = "debounce"
        /\ t.at <= now
        /\ fetchIdRef < MaxRefetches
        /\ timers' = timers \ {t}
        /\ DoFetchStart
        /\ lastTrigger' = "debounce"
        /\ burstFires' = burstFires + 1
        /\ UNCHANGED <<now, storage, storageFails, mounted, cacheKey, data,
                       isFresh, effectPending, renderThrew, dataOrigin,
                       observed, lateResult, tz, debounceTimerRef,
                       hourlyTimerRef, subscribed, lastPushAt, burstLen,
                       pushCount>>

\* The hourly timer fires: its callback calls refetch() and then
\* scheduleHourlyRefetch().
HourlyFires ==
    \E t \in timers :
        /\ t.kind = "hourly"
        /\ t.at <= now
        /\ fetchIdRef < MaxRefetches
        /\ DoFetchStart
        /\ timers' = scheduleHourlyRefetch(timers \ {t}, hourlyTimerRef, now)
        /\ hourlyTimerRef' = NextHour(now)
        /\ lastTrigger' = "hourly"
        /\ UNCHANGED <<now, storage, storageFails, mounted, cacheKey, data,
                       isFresh, effectPending, renderThrew, dataOrigin,
                       observed, lateResult, tz, debounceTimerRef,
                       subscribed, lastPushAt, burstLen, burstFires,
                       pushCount>>

Min(S) == CHOOSE x \in S : \A y \in S : x <= y

\* Time passes: by StepMs while a debounce timer is pending, else to the next
\* full hour; never past the deadline of a pending timer.
Advance ==
    /\ NoTimerDue
    /\ LET target == IF \E t \in timers : t.kind = "debounce"
                       THEN now + StepMs
                       ELSE ((now \div HourMs) + 1) * HourMs
           next == Min({target} \cup {t.at : t \in timers})
       IN  /\ next <= MaxHours * HourMs
           /\ now' = next
    /\ UNCHANGED <<storage, storageFails, mounted, cacheKey, data, isFresh,
                   isFetching, error, fetchIdRef, inflight, effectPending,
                   renderThrew, lastOutcome, dataOrigin, observed, lateResult,
                   timerVars>>

\* Variant of ForecastUnmount whose cleanup forgets the hourly timer.
UnmountKeepsHourlyTimer ==
    /\ mounted
    /\ mounted' = FALSE
    /\ effectPending' = FALSE
    /\ subscribed' = FALSE
    /\ timers' = IF subscribed
                   THEN ClearTimer(timers, "debounce", debounceTimerRef)
                   ELSE timers
    /\ UNCHANGED <<now, storage, storageFails, cacheKey, data, isFresh,
                   isFetching, error, fetchIdRef, inflight, renderThrew,
                   lastOutcome, dataOrigin, observed, lateResult, tz,
                   debounceTimerRef, hourlyTimerRef, lastTrigger, lastPushAt,
                   burstLen, burstFires, pushCount>>

\* The consumer is torn down: effects that have not run are dropped; the
\* cleanup of the subscription effect unsubscribes and clears both timers.
ForecastUnmount ==
    /\ mounted
    /\ mounted' = FALSE
    /\ effectPending' = FALSE
    /\ subscribed' = FALSE
    /\ timers' = IF subscribed
                   THEN ClearTimer(ClearTimer(timers, "debounce",
                                              debounceTimerRef),
                                   "hourly", hourlyTimerRef)
                   ELSE timers
    /\ UNCHANGED <<now, storage, storageFails, cacheKey, data, isFresh,
                   isFetching, error, fetchIdRef, inflight, renderThrew,
                   lastOutcome, dataOrigin, observed, lateResult, tz,
                   debounceTimerRef, hourlyTimerRef, lastTrigger, lastPushAt,
                   burstLen, burstFires, pushCount>>

TimerNext ==
    \/ ForecastMount /\ UNCHANGED <<aggVars, regVars, moreVars>>
    \/ ForecastEffects /\ UNCHANGED <<aggVars, regVars, moreVars>>
    \/ \E e \in Entities : Push(e) /\ UNCHANGED <<aggVars, regVars, moreVars>>
    \/ DebounceFires /\ UNCHANGED <<aggVars, regVars, moreVars>>
    \/ HourlyFires /\ UNCHANGED <<aggVars, regVars, moreVars>>
    \/ Advance /\ UNCHANGED <<aggVars, regVars, moreVars>>
    \/ \E f \in inflight :
          /\ FetchResolves(f, "v2")
          /\ UNCHANGED <<timerVars, aggVars, regVars, moreVars>>
    \/ \E f \in inflight :
          FetchRejects(f) /\ UNCHANGED <<timerVars, aggVars, regVars, moreVars>>
    \/ ForecastUnmount /\ UNCHANGED <<aggVars, regVars, moreVars>>

TimerSpec == TimerInit /\ [][TimerNext]_<<vars, timerVars>>

\* ------------------------------------------- useWeatherForecast: changed deps
\* The consumer is rendered with a changed argument and the effects whose
\* deps changed run, cleanups first: what is "entity" (entityId), "type"
\* (the forecast type) or "subscribe" (store.subscribeToEntity).  The cache
\* key is made of entityId and type.
DepKinds == {"entity", "type", "subscribe"}

OtherKey(k) == IF k = "k1" THEN "k2" ELSE "k1"

\* The cleanup of the subscription effect: both timers are cleared.
SubscriptionCleanup(ts) ==
    ClearTimer(ClearTimer(ts, "debounce", debounceTimerRef),
               "hourly", hourlyTimerRef)

\* The render with the changed argument and its effects.  A changed entityId
\* or type re-runs the deps effect of useCachedFetch (doFetch with the new
\* key) and the hourly effect (scheduleHourlyRefetch); a changed entityId or
\* subscribeToEntity re-runs the subscription effect, whose cleanup clears
\* both timers and starts a subscription with no burst.
ForecastDepsChange(what) ==
    /\ mounted
    /\ subscribed
    /\ ~effectPending
    /\ IF what = "subscribe"
         THEN UNCHANGED <<cacheKey, observed, isFetching, error, fetchIdRef,
                          inflight, lastOutcome, lastTrigger>>
         ELSE /\ fetchIdRef < MaxRefetches
              /\ cacheKey' = OtherKey(cacheKey)
              /\ observed' = observed \cup {OtherKey(cacheKey)}
              /\ fetchIdRef' = fetchIdRef + 1
              /\ isFetching' = TRUE
              /\ error' = NoError
              /\ inflight' = inflight \cup {[id |-> fetchIdRef + 1,
                                             key |-> OtherKey(cacheKey)]}
              /\ lastOutcome' = "pending"
              /\ lastTrigger' = "effect"
    /\ CASE what = "entity" ->
              /\ timers' = scheduleHourlyRefetch(SubscriptionCleanup(timers),
                                                 hourlyTimerRef, now)
              /\ hourlyTimerRef' = NextHour(now)
         [] what = "type" ->
              /\ timers' = scheduleHourlyRefetch(timers, hourlyTimerRef, now)
              /\ hourlyTimerRef' = NextHour(now)
         [] what = "subscribe" ->
              /\ timers' = SubscriptionCleanup(timers)
              /\ UNCHANGED hourlyTimerRef
    /\ IF what = "type"
         THEN UNCHANGED <<lastPushAt, burstLen, burstFires>>
         ELSE lastPushAt' = -1 /\ burstLen' = 0 /\ burstFires' = 0
    /\ UNCHANGED <<now, storage, storageFails, mounted, data, isFresh,
                   effectPending, renderThrew, dataOrigin, lateResult, tz,
                   debounceTimerRef, subscribed, pushCount>>

\* The steps of the consumer whose arguments change.  Its requests end by
\* rejecting, which leaves the cache alone; the timers do not depend on how
\* a request ends.
DepsNext ==
    \/ ForecastMount /\ UNCHANGED <<aggVars, regVars, moreVars>>
    \/ ForecastEffects /\ UNCHANGED <<aggVars, regVars, moreVars>>
    \/ \E what \in DepKinds :
          ForecastDepsChange(what) /\ UNCHANGED <<aggVars, regVars, moreVars>>
    \/ Push(EntityId) /\ UNCHANGED <<aggVars, regVars, moreVars>>
    \/ DebounceFires /\ UNCHANGED <<aggVars, regVars, moreVars>>
    \/ HourlyFires /\ UNCHANGED <<aggVars, regVars, moreVars>>
    \/ Advance /\ UNCHANGED <<aggVars, regVars, moreVars>>
    \/ \E f \in inflight :
          FetchRejects(f) /\ UNCHANGED <<timerVars, aggVars, regVars, moreVars>>
    \/ ForecastUnmount /\ UNCHANGED <<aggVars, regVars, moreVars>>

\* The consumer starts at time 0 in a zone without daylight saving and with
\* an empty cache.
DepsInit ==
    /\ TimerInit
    /\ now = 0
    /\ tz = "fixed"
    /\ storage = [k \in Keys |-> NoEntry]

DepsSpec == DepsInit /\ [][DepsNext]_<<vars, timerVars>>

\* =============================================== useMultiCalendarEvents
\* One useMultiCalendarEvents consumer: useCachedFetch whose fetcher asks the
\* backend for the events of every source in entityIds.  One doFetch call is
\* pending at a time.

MaxSources == 3
MaxAggFetches == 2

Sources == {"calendar.a", "calendar.b", "calendar.c"}
EventLists == {<<>>, <<"e1">>, <<"e2", "e1">>}
AggKey == "k1"

\* Lists of distinct source ids.
SourceLists ==
    UNION {{ids \in [1..n -> Sources] :
              \A i, j \in 1..n : i # j => ids[i] # ids[j]} :
           n \in 0..MaxSources}

\* calendarEvents.map(event => ({...event, calendarId: entityId}))
Tag(calendarEvents, id) ==
    [k \in 1..Len(calendarEvents) |->
        [event |-> calendarEvents[k], calendarId |-> id]]

\* What the callback mapped over entityIds resolves to for position i: the
\* tagged events, or [] from its catch block.
PerSource(i) ==
    IF requests[i] = "ok" THEN Tag(responses[i], entityIds[i]) ELSE <<>>

\* Variant of results that lists the contributions as the requests ended.
ResultsInCompletionOrder == [k \in 1..Len(order) |-> PerSource(order[k])]

\* The value of Promise.all: one contribution per position of entityIds.
results == [i \in 1..Len(entityIds) |-> PerSource(i)]

RECURSIVE Flat(_)
\* Array.prototype.flat on an array of arrays.
Flat(ss) == IF ss = <<>> THEN <<>> ELSE Head(ss) \o Flat(Tail(ss))

\* Variant of FetcherPhase without the connection check.
PhaseIgnoresConnection(conn, ids) ==
    IF Len(ids) = 0 THEN "empty" ELSE "waiting"

\* Variant of FetcherPhase that tests the empty list before the connection.
PhaseEmptyListFirst(conn, ids) ==
    IF Len(ids) = 0 THEN "empty" ELSE IF ~conn THEN "threw" ELSE "waiting"

\* The fetcher up to its first await: it throws without a connection,
\* returns [] for an empty list, and else sends one request per source.
FetcherPhase(conn, ids) ==
    IF ~conn THEN "threw" ELSE IF Len(ids) = 0 THEN "empty" ELSE "waiting"

AggInit ==
    /\ now = 0
    /\ storage = [k \in Keys |-> NoEntry]
    /\ storageFails = FALSE
    /\ mounted = FALSE
    /\ cacheKey = AggKey
    /\ data = Absent
    /\ isFresh = FALSE
    /\ isFetching = FALSE
    /\ error = NoError
    /\ fetchIdRef = 0
    /\ inflight = {}
    /\ effectPending = FALSE
    /\ renderThrew = FALSE
    /\ lastOutcome = "none"
    /\ dataOrigin = [src |-> "none", key |-> AggKey]
    /\ observed = {}
    /\ lateResult = "none"
    /\ TimersIdle
    /\ RegIdle
    /\ MoreIdle
    /\ connection \in BOOLEAN
    /\ entityIds \in SourceLists
    /\ fetcherPhase = "idle"
    /\ requests = <<>>
    /\ responses = <<>>
    /\ issued = 0
    /\ order = <<>>

\* First render of the consumer.
AggMount ==
    /\ Mount(AggKey)
    /\ UNCHANGED aggVars

\* hass.connection appears or goes away.
ConnectionChange ==
    /\ connection' = ~connection
    /\ UNCHANGED <<vars, entityIds, fetcherPhase, requests, responses, issued,
                   order>>

\* doFetch, from the deps effect or from refetch(), and the fetcher it calls
\* up to the first await.
AggFetch ==
    /\ mounted
    /\ inflight = {}
    /\ fetchIdRef < MaxAggFetches
    /\ DoFetchStart
    /\ effectPending' = FALSE
    /\ fetcherPhase' = FetcherPhase(connection, entityIds)
    /\ IF fetcherPhase' = "waiting"
         THEN /\ requests' = [i \in 1..Len(entityIds) |-> "pending"]
              /\ responses' = [i \in 1..Len(entityIds) |-> <<>>]
              /\ issued' = issued + Len(entityIds)
         ELSE /\ requests' = <<>>
              /\ responses' = <<>>
              /\ issued' = issued
    /\ order' = <<>>
    /\ UNCHANGED <<now, storage, storageFails, mounted, cacheKey, data,
                   isFresh, renderThrew, dataOrigin, observed, lateResult,
                   connection, entityIds>>

\* sendMessagePromise of position i resolves with the events evs.
RequestResolves(i, evs) ==
    /\ fetcherPhase = "waiting"
    /\ requests[i] = "pending"
    /\ requests' = [requests EXCEPT ![i] = "ok"]
    /\ responses' = [responses EXCEPT ![i] = evs]
    /\ order' = Append(order, i)
    /\ UNCHANGED <<vars, connection, entityIds, fetcherPhase, issued>>

\* sendMessagePromise of position i rejects.
RequestRejects(i) ==
    /\ fetcherPhase = "waiting"
    /\ requests[i] = "pending"
    /\ requests' = [requests EXCEPT ![i] = "failed"]
    /\ order' = Append(order, i)
    /\ UNCHANGED <<vars, connection, entityIds, fetcherPhase, responses,
                   issued>>

AllSettled == \A i \in 1..Len(requests) : requests[i] # "pending"

\* Variant of FetcherSettles without the catch block around each request: a
\* rejected request rejects Promise.all.
FetcherSettlesFailFast ==
    /\ \E f \in inflight :
          CASE fetcherPhase = "threw" -> FetchRejects(f)
            [] fetcherPhase = "empty" -> FetchResolves(f, <<>>)
            [] fetcherPhase = "waiting" ->
                  /\ AllSettled
                  /\ IF \E i \in 1..Len(requests) : requests[i] = "failed"
                       THEN FetchRejects(f)
                       ELSE FetchResolves(f, Flat(results))
            [] OTHER -> FALSE
    /\ fetcherPhase' = "idle"
    /\ UNCHANGED <<connection, entityIds, requests, responses, issued, order>>

\* The fetcher's promise settles and doFetch resumes: with the thrown error,
\* with [], or with results.flat() once every request has ended.
FetcherSettles ==
    /\ \E f \in inflight :
          CASE fetcherPhase = "threw" -> FetchRejects(f)
            [] fetcherPhase = "empty" -> FetchResolves(f, <<>>)
            [] fetcherPhase = "waiting" ->
                  /\ AllSettled
                  /\ FetchResolves(f, Flat(results))
            [] OTHER -> FALSE
    /\ fetcherPhase' = "idle"
    /\ UNCHANGED <<connection, entityIds, requests, responses, issued, order>>

AggNext ==
    \/ AggMount /\ UNCHANGED <<timerVars, regVars, moreVars>>
    \/ ConnectionChange /\ UNCHANGED <<timerVars, regVars, moreVars>>
    \/ AggFetch /\ UNCHANGED <<timerVars, regVars, moreVars>>
    \/ \E i \in 1..Len(requests), evs \in EventLists :
          RequestResolves(i, evs) /\ UNCHANGED <<timerVars, regVars, moreVars>>
    \/ \E i \in 1..Len(requests) :
          RequestRejects(i) /\ UNCHANGED <<timerVars, regVars, moreVars>>
    \/ FetcherSettles /\ UNCHANGED <<timerVars, regVars, moreVars>>

AggSpec == AggInit /\ [][AggNext]_<<vars, aggVars>>

\* ============================================ BaseHACard listener registry
\* _entityChangeListeners of one card, the consumers that subscribe and
\* unsubscribe, and the notifications of entity changes.  A Set keeps its
\* members in insertion order, which is the order forEach visits them in.

RegEntities == {"sensor.a", "sensor.b"}
Callbacks == {"c1", "c2", "thrower"}
RegValues == {"on", "off"}

\* The listener raises an exception when called.
Throws(cb) == cb = "thrower"

\* Map.prototype.set
MapSet(m, id, v) ==
    [x \in (DOMAIN m) \cup {id} |-> IF x = id THEN v ELSE m[x]]

\* Map.prototype.delete
MapDelete(m, id) == [x \in (DOMAIN m) \ {id} |-> m[x]]

\* Set.prototype.add
SetAdd(ls, cb) ==
    IF \E i \in 1..Len(ls) : ls[i] = cb THEN ls ELSE Append(ls, cb)

\* Set.prototype.delete
SetDelete(ls, cb) == LET Other(x) == x # cb IN SelectSeq(ls, Other)

\* _subscribeToEntity: the Map after the call.
subscribeToEntity(m, id, cb) ==
    LET m1 == IF id \in DOMAIN m THEN m ELSE MapSet(m, id, <<>>)
    IN  MapSet(m1, id, SetAdd(m1[id], cb))

\* Variant of unsubscribe that leaves an emptied Set in the Map.
UnsubscribeKeepsEmptySet(m, id, cb) ==
    IF id \in DOMAIN m THEN MapSet(m, id, SetDelete(m[id], cb)) ELSE m

\* The closure returned by _subscribeToEntity(id, cb): the Map after a call.
unsubscribe(m, id, cb) ==
    IF id \in DOMAIN m
      THEN LET ls == SetDelete(m[id], cb)
           IN  IF Len(ls) = 0 THEN MapDelete(m, id) ELSE MapSet(m, id, ls)
      ELSE m

\* The position of the first listener of ls that throws, 0 if none does.
FirstThrower(ls) ==
    IF \E i \in 1..Len(ls) : Throws(ls[i])
      THEN Min({i \in 1..Len(ls) : Throws(ls[i])})
      ELSE 0

\* listeners.forEach(listener => listener(entity)): the calls made, in
\* order; an exception of a listener ends the iteration.
Calls(ls, v) ==
    LET k == FirstThrower(ls)
    IN  [i \in 1..(IF k = 0 THEN Len(ls) ELSE k) |->
           [callback |-> ls[i], value |-> v]]

FetchIdle ==
    /\ now = 0
    /\ storage = [k \in Keys |-> NoEntry]
    /\ storageFails = FALSE
    /\ mounted = FALSE
    /\ cacheKey = "k1"
    /\ data = Absent
    /\ isFresh = FALSE
    /\ isFetching = FALSE
    /\ error = NoError
    /\ fetchIdRef = 0
    /\ inflight = {}
    /\ effectPending = FALSE
    /\ renderThrew = FALSE
    /\ lastOutcome = "none"
    /\ dataOrigin = [src |-> "none", key |-> "k1"]
    /\ observed = {}
    /\ lateResult = "none"

RegInit ==
    /\ FetchIdle
    /\ TimersIdle
    /\ AggIdle
    /\ RegIdle
    /\ MoreIdle

\* A consumer calls _subscribeToEntity(id, cb) and keeps the closure.
Subscribe(id, cb) ==
    /\ listeners' = subscribeToEntity(listeners, id, cb)
    /\ handles' = handles \cup {[entityId |-> id, callback |-> cb]}
    /\ lastOp' = [op |-> "subscribe", entityId |-> id, arg |-> cb]
    /\ delivered' = <<>>
    /\ notifyThrew' = FALSE

\* A consumer calls a closure it was returned, for the first time or again.
Unsubscribe(h) ==
    /\ h \in handles
    /\ listeners' = unsubscribe(listeners, h.entityId, h.callback)
    /\ lastOp' = [op |-> "unsubscribe", entityId |-> h.entityId,
                  arg |-> h.callback]
    /\ delivered' = <<>>
    /\ notifyThrew' = FALSE
    /\ UNCHANGED handles

\* _notifyEntityChanges({[id]: v})
Notify(id, v) ==
    /\ LET ls == IF id \in DOMAIN listeners THEN listeners[id] ELSE <<>>
       IN  /\ delivered' = Calls(ls, v)
           /\ notifyThrew' = (FirstThrower(ls) # 0)
    /\ lastOp' = [op |-> "notify", entityId |-> id, arg |-> v]
    /\ UNCHANGED <<listeners, handles>>

RegNext ==
    \/ \E id \in RegEntities, cb \in Callbacks :
          Subscribe(id, cb) /\ UNCHANGED <<vars, timerVars, aggVars, moreVars>>
    \/ \E h \in handles :
          Unsubscribe(h) /\ UNCHANGED <<vars, timerVars, aggVars, moreVars>>
    \/ \E id \in RegEntities, v \in RegValues :
          Notify(id, v) /\ UNCHANGED <<vars, timerVars, aggVars, moreVars>>

RegSpec == RegInit /\ [][RegNext]_regVars

\* ============================================ two useCachedFetch consumers
\* Two instances of useCachedFetch, A and B, each with its own useState cells
\* and its own fetchIdRef, over the one localStorage.  A consumer renders
\* with one cache key; it may be torn down while its calls are pending.

MaxPairFetches == 2

\* Variant of Commit in which the fetched value lands in every consumer.
CommitIntoEveryConsumer(hs, f, v) ==
    [c \in Consumers |->
       IF hs[c].mounted
         THEN [hs[c] EXCEPT !.data = v, !.isFresh = TRUE,
                            !.isFetching = FALSE]
         ELSE hs[c]]

\* setData(result); setIsFresh(true); setIsFetching(false) of the consumer
\* that owns call f.  The setters of a consumer that is gone change nothing.
Commit(hs, f, v) ==
    IF hs[f.owner].mounted
      THEN [hs EXCEPT ![f.owner] = [@ EXCEPT !.data = v, !.isFresh = TRUE,
                                            !.isFetching = FALSE]]
      ELSE hs

PairInit ==
    /\ FetchIdle
    /\ TimersIdle
    /\ AggIdle
    /\ RegIdle
    /\ MoreIdle

\* First render of consumer c with cache key k.  The consumers and the keys
\* are interchangeable: A names the one that renders first, k1 its key.
PairMount(c, k) ==
    /\ hooks[c] = HookIdle
    /\ c = "A" => k = "k1"
    /\ c = "B" => hooks["A"] # HookIdle
    /\ LET r == loadFromCache(storage, k, now, storageFails)
       IN  /\ hooks' = [hooks EXCEPT ![c] =
                          [HookIdle EXCEPT !.mounted = TRUE, !.key = k,
                                           !.data = r.ret]]
           /\ storage' = r.storage
    /\ UNCHANGED <<calls, issueSeq, lastFor>>

\* doFetch of consumer c up to its await, from its deps effect or refetch().
PairFetch(c) ==
    /\ hooks[c].mounted
    /\ hooks[c].fetchIdRef < MaxPairFetches
    /\ LET id == hooks[c].fetchIdRef + 1
       IN  /\ hooks' = [hooks EXCEPT ![c] =
                          [@ EXCEPT !.fetchIdRef = id, !.isFetching = TRUE,
                                    !.error = NoError]]
           /\ calls' = calls \cup {[owner |-> c, id |-> id,
                                    key |-> hooks[c].key,
                                    seq |-> issueSeq + 1]}
    /\ issueSeq' = issueSeq + 1
    /\ lastFor' = [lastFor EXCEPT ![hooks[c].key] =
                     [seq |-> issueSeq + 1, outcome |-> "pending"]]
    /\ UNCHANGED storage

\* The outcome of call f, noted when f is the call issued last for its key.
Noted(f, outcome) ==
    IF lastFor[f.key].seq = f.seq
      THEN [lastFor EXCEPT ![f.key].outcome = outcome]
      ELSE lastFor

\* The fetcher of call f resolves with v: doFetch's try and finally blocks.
PairResolves(f, v) ==
    /\ f \in calls
    /\ calls' = calls \ {f}
    /\ IF f.id = hooks[f.owner].fetchIdRef
         THEN /\ hooks' = Commit(hooks, f, v)
              /\ storage' = saveToCache(storage, f.key, v, now, storageFails)
         ELSE UNCHANGED <<hooks, storage>>
    /\ lastFor' = Noted(f, v)
    /\ UNCHANGED issueSeq

\* The fetcher of call f rejects: doFetch's catch and finally blocks.
PairRejects(f) ==
    /\ f \in calls
    /\ calls' = calls \ {f}
    /\ hooks' = IF f.id = hooks[f.owner].fetchIdRef /\ hooks[f.owner].mounted
                  THEN [hooks EXCEPT ![f.owner] =
                          [@ EXCEPT !.error = FetchError,
                                    !.isFetching = FALSE]]
                  ELSE hooks
    /\ lastFor' = Noted(f, "failed")
    /\ UNCHANGED <<storage, issueSeq>>

\* Consumer c is torn down.  useCachedFetch registers no cleanup: pending
\* calls keep their closure and their fetchIdRef.
PairUnmount(c) ==
    /\ hooks[c].mounted
    /\ hooks' = [hooks EXCEPT ![c].mounted = FALSE]
    /\ UNCHANGED <<storage, calls, issueSeq, lastFor>>

pairFrame ==
    <<now, storageFails, mounted, cacheKey, data, isFresh, isFetching, error,
      fetchIdRef, inflight, effectPending, renderThrew, lastOutcome,
      dataOrigin, observed, lateResult, timerVars, aggVars, regVars, entVars,
      rangeVars, cardVars>>

PairNext ==
    \/ \E c \in Consumers, k \in Keys : PairMount(c, k) /\ UNCHANGED pairFrame
    \/ \E c \in Consumers : PairFetch(c) /\ UNCHANGED pairFrame
    \/ \E f \in calls, v \in Values :
          PairResolves(f, v) /\ UNCHANGED pairFrame
    \/ \E f \in calls : PairRejects(f) /\ UNCHANGED pairFrame
    \/ \E c \in Consumers : PairUnmount(c) /\ UNCHANGED pairFrame

PairSpec == PairInit /\ [][PairNext]_<<storage, pairVars>>

\* ================================================================ useEntity
\* One useEntity consumer of a card: its useState cell, its listener in the
\* card's registry, the card's hass.states, and the cache items entity:<id>.

EntListener == "c1"

\* cacheKey = entity:${entityId}
EntityKey(id) == IF id = "sensor.a" THEN "k1" ELSE "k2"

EntInit ==
    /\ now = 0
    /\ storage \in {[k \in Keys |-> IF k = "k1" THEN e ELSE NoEntry] :
                      e \in {NoEntry, CacheEntry("v1", 0)}}
    /\ storageFails = FALSE
    /\ mounted = FALSE
    /\ cacheKey = "k1"
    /\ data = Absent
    /\ isFresh = FALSE
    /\ isFetching = FALSE
    /\ error = NoError
    /\ fetchIdRef = 0
    /\ inflight = {}
    /\ effectPending = FALSE
    /\ renderThrew = FALSE
    /\ lastOutcome = "none"
    /\ dataOrigin = [src |-> "none", key |-> "k1"]
    /\ observed = {}
    /\ lateResult = "none"
    /\ TimersIdle
    /\ AggIdle
    /\ RegIdle
    /\ PairIdle
    /\ entMounted = FALSE
    /\ entId = "sensor.a"
    /\ entity = Absent
    /\ entSubscribed = FALSE
    /\ entityOf = "none"
    /\ hassStates \in [EntityIds -> {Absent, "v1"}]
    /\ lastPushed = [id \in EntityIds |-> "none"]
    /\ RangeIdle
    /\ CardIdle

\* First render of useEntity(id): the useState initializer takes the state
\* from hass.states, else from the cache; the effect is scheduled.
EntMount(id) ==
    /\ ~entMounted
    /\ entMounted' = TRUE
    /\ entId' = id
    /\ entSubscribed' = FALSE
    /\ IF hassStates[id] # Absent
         THEN entity' = hassStates[id] /\ UNCHANGED storage
         ELSE LET r == loadFromCache(storage, EntityKey(id), now, storageFails)
              IN  entity' = r.ret /\ storage' = r.storage
    /\ entityOf' = IF entity' # Absent THEN id ELSE "none"
    /\ UNCHANGED <<hassStates, lastPushed, regVars>>

\* A mounted consumer is rendered with another entity id: useState keeps the
\* entity it holds; the effect, if it had run, is cleaned up and runs again
\* for the new id.
EntRerender(id) ==
    /\ entMounted
    /\ id # entId
    /\ entId' = id
    /\ IF entSubscribed
         THEN /\ listeners' = subscribeToEntity(
                                  unsubscribe(listeners, entId, EntListener),
                                  id, EntListener)
              /\ handles' = handles \cup
                                {[entityId |-> id, callback |-> EntListener]}
              /\ lastOp' = [op |-> "subscribe", entityId |-> id,
                            arg |-> EntListener]
         ELSE UNCHANGED <<listeners, handles, lastOp>>
    /\ UNCHANGED <<storage, entMounted, entity, entityOf, entSubscribed,
                   hassStates, lastPushed, delivered, notifyThrew>>

\* The effect of the render runs: store.subscribeToEntity(entityId, ...).
EntEffect ==
    /\ entMounted
    /\ ~entSubscribed
    /\ entSubscribed' = TRUE
    /\ listeners' = subscribeToEntity(listeners, entId, EntListener)
    /\ handles' = handles \cup {[entityId |-> entId, callback |-> EntListener]}
    /\ lastOp' = [op |-> "subscribe", entityId |-> entId, arg |-> EntListener]
    /\ UNCHANGED <<storage, entMounted, entId, entity, entityOf, hassStates,
                   lastPushed, delivered, notifyThrew>>

\* The backend pushes state v of entity id: the subscribeMessage callback
\* stores it in hass.states and calls _notifyEntityChanges; the listener of
\* useEntity calls setEntity and saveToCache.
StateChanged(id, v) ==
    /\ hassStates' = [hassStates EXCEPT ![id] = v]
    /\ lastPushed' = [lastPushed EXCEPT ![id] = v]
    /\ Notify(id, v)
    /\ IF \E k \in 1..Len(delivered') : delivered'[k].callback = EntListener
         THEN /\ entity' = v
              /\ entityOf' = id
              /\ storage' = saveToCache(storage, EntityKey(entId), v, now,
                                        storageFails)
         ELSE UNCHANGED <<entity, entityOf, storage>>
    /\ UNCHANGED <<entMounted, entId, entSubscribed>>

\* The consumer is torn down: the cleanup of a run effect unsubscribes.
EntUnmount ==
    /\ entMounted
    /\ entMounted' = FALSE
    /\ entSubscribed' = FALSE
    /\ IF entSubscribed
         THEN /\ listeners' = unsubscribe(listeners, entId, EntListener)
              /\ lastOp' = [op |-> "unsubscribe", entityId |-> entId,
                            arg |-> EntListener]
         ELSE UNCHANGED <<listeners, lastOp>>
    /\ UNCHANGED <<storage, entId, entity, entityOf, hassStates, lastPushed,
                   handles, delivered, notifyThrew>>

entFrame ==
    <<now, storageFails, mounted, cacheKey, data, isFresh, isFetching, error,
      fetchIdRef, inflight, effectPending, renderThrew, lastOutcome,
      dataOrigin, observed, lateResult, timerVars, aggVars, pairVars,
      rangeVars, cardVars>>

EntNext ==
    \/ \E id \in EntityIds : EntMount(id) /\ UNCHANGED entFrame
    \/ \E id \in EntityIds : EntRerender(id) /\ UNCHANGED entFrame
    \/ EntEffect /\ UNCHANGED entFrame
    \/ \E id \in EntityIds, v \in Values :
          StateChanged(id, v) /\ UNCHANGED entFrame
    \/ EntUnmount /\ UNCHANGED entFrame

EntSpec == EntInit /\ [][EntNext]_<<storage, regVars, entVars>>

\* ===================================== useMultiCalendarEvents, earlier version
\* The consumer with the in-memory cache per date range.  Its entity list is
\* fixed and not empty; an event list is a value of Values (the per-source
\* catch turns a failed source into an empty part of the list).

MaxRangeFetches == 3

RangeInit ==
    /\ FetchIdle
    /\ TimersIdle
    /\ AggIdle
    /\ RegIdle
    /\ MoreIdle

\* The value the hook returns as events: the cache entry of the current
\* range, else the fetched events if they were fetched for this range.
effectiveEvents ==
    IF cacheRef[dateRangeKey] # Absent THEN cacheRef[dateRangeKey]
    ELSE IF eventsDateRangeKey = dateRangeKey THEN events
    ELSE Absent

\* fetchAllEvents up to its await: without a connection it sets the error and
\* returns; else it takes the next fetch id and counts itself in flight.
\* trigger says who called it.
fetchAllEvents(trigger) ==
    IF ~connection
      THEN /\ error' = FetchError
           /\ UNCHANGED <<fetchIdRef, inflight, inFlightCountRef, refreshing,
                          lastTrigger>>
      ELSE /\ lastTrigger' = trigger
           /\ fetchIdRef' = fetchIdRef + 1
           /\ inflight' = inflight \cup {[id |-> fetchIdRef + 1,
                                          key |-> dateRangeKey]}
           /\ inFlightCountRef' = inFlightCountRef + 1
           /\ refreshing' = TRUE
           /\ error' = NoError

\* What no step of this consumer touches.
rangeFrame ==
    <<now, storage, storageFails, cacheKey, data, isFresh, isFetching,
      renderThrew, lastOutcome, dataOrigin, observed, lateResult,
      tz, timers, hourlyTimerRef, lastPushAt, burstLen,
      burstFires, pushCount, entityIds, fetcherPhase, requests, responses,
      issued, order, regVars, pairVars, entVars, cardVars>>

\* First render: the effects are scheduled.
RangeMount ==
    /\ ~mounted
    /\ mounted' = TRUE
    /\ effectPending' = TRUE
    /\ UNCHANGED <<error, fetchIdRef, inflight, debounceTimerRef, subscribed,
                   lastTrigger, connection, rangeVars>>

\* The effects of a render run.  The fetch effect fetches unless the range is
\* cached and the cache is not marked; on mount the entity-list effect then
\* marks the cache and the subscription effect subscribes.
RangeEffects ==
    /\ mounted
    /\ effectPending
    /\ effectPending' = FALSE
    /\ IF cacheRef[dateRangeKey] = Absent \/ shouldInvalidateCacheRef
         THEN fetchIdRef < MaxRangeFetches /\ fetchAllEvents("effect")
         ELSE UNCHANGED <<error, fetchIdRef, inflight, inFlightCountRef,
                          refreshing, lastTrigger>>
    /\ shouldInvalidateCacheRef' =
          IF subscribed THEN shouldInvalidateCacheRef ELSE TRUE
    /\ subscribed' = TRUE
    /\ UNCHANGED <<mounted, debounceTimerRef, connection, dateRangeKey,
                   cacheRef, events, eventsDateRangeKey, lastCleared>>

\* The consumer is rendered with another date range.
Navigate(r) ==
    /\ mounted
    /\ ~effectPending
    /\ r # dateRangeKey
    /\ dateRangeKey' = r
    /\ effectPending' = TRUE
    /\ UNCHANGED <<mounted, error, fetchIdRef, inflight, debounceTimerRef,
                   subscribed, lastTrigger, connection, cacheRef,
                   shouldInvalidateCacheRef,
                   inFlightCountRef, refreshing, events, eventsDateRangeKey,
                   lastCleared>>

\* refetch() called by the consumer.
RangeRefetch ==
    /\ mounted
    /\ subscribed
    /\ fetchIdRef < MaxRangeFetches
    /\ fetchAllEvents("refetch")
    /\ UNCHANGED <<mounted, effectPending, debounceTimerRef, subscribed,
                   connection, dateRangeKey, cacheRef,
                   shouldInvalidateCacheRef, events, eventsDateRangeKey,
                   lastCleared>>

\* A subscribed entity changes: debouncedRefetch clears the pending timer and
\* arms a new one.
EntityChange ==
    /\ mounted
    /\ subscribed
    /\ debounceTimerRef' = 1
    /\ UNCHANGED <<mounted, effectPending, error, fetchIdRef, inflight,
                   subscribed, lastTrigger, connection, rangeVars>>

\* The debounce callback: mark the cache, leave its entries.
RangeDebounceMarks ==
    /\ shouldInvalidateCacheRef' = TRUE
    /\ UNCHANGED cacheRef

\* The debounce timer fires.
RangeDebounceFires ==
    /\ mounted
    /\ debounceTimerRef # NoTimer
    /\ debounceTimerRef' = NoTimer
    /\ fetchIdRef < MaxRangeFetches
    /\ RangeDebounceMarks
    /\ fetchAllEvents("debounce")
    /\ UNCHANGED <<mounted, effectPending, subscribed, connection,
                   dateRangeKey, events, eventsDateRangeKey, lastCleared>>

\* Variant of RangeCommit that keeps the other ranges of a marked cache.
RangeCommitKeepsOthers(f, v) ==
    /\ cacheRef' = [cacheRef EXCEPT ![f.key] = v]
    /\ lastCleared' = {}
    /\ shouldInvalidateCacheRef' = FALSE
    /\ events' = v
    /\ eventsDateRangeKey' = f.key

\* The guarded block after the await: clear a marked cache, store the events
\* under the range of the call, set events and eventsDateRangeKey.
RangeCommit(f, v) ==
    /\ IF shouldInvalidateCacheRef
         THEN /\ cacheRef' = [r \in DateRanges |->
                                IF r = f.key THEN v ELSE Absent]
              /\ lastCleared' = {r \in DateRanges : cacheRef[r] # Absent}
         ELSE /\ cacheRef' = [cacheRef EXCEPT ![f.key] = v]
              /\ lastCleared' = {}
    /\ shouldInvalidateCacheRef' = FALSE
    /\ events' = v
    /\ eventsDateRangeKey' = f.key

\* The requests of call f have all ended and gave the events v.
RangeResolves(f, v) ==
    /\ mounted
    /\ f \in inflight
    /\ inflight' = inflight \ {f}
    /\ IF f.id = fetchIdRef
         THEN RangeCommit(f, v)
         ELSE UNCHANGED <<cacheRef, lastCleared, shouldInvalidateCacheRef,
                          events, eventsDateRangeKey>>
    /\ inFlightCountRef' = inFlightCountRef - 1
    /\ refreshing' = IF inFlightCountRef - 1 = 0 THEN FALSE ELSE refreshing
    /\ UNCHANGED <<mounted, effectPending, error, fetchIdRef,
                   debounceTimerRef, subscribed, lastTrigger, connection,
                   dateRangeKey>>

RangeNext ==
    \/ RangeMount /\ UNCHANGED rangeFrame
    \/ RangeEffects /\ UNCHANGED rangeFrame
    \/ \E r \in DateRanges : Navigate(r) /\ UNCHANGED rangeFrame
    \/ RangeRefetch /\ UNCHANGED rangeFrame
    \/ EntityChange /\ UNCHANGED rangeFrame
    \/ RangeDebounceFires /\ UNCHANGED rangeFrame
    \/ \E f \in inflight, v \in Values :
          RangeResolves(f, v) /\ UNCHANGED rangeFrame
    \/ ConnectionChange /\ UNCHANGED <<timerVars, regVars, moreVars>>

RangeSpec ==
    RangeInit /\ [][RangeNext]_<<vars, timerVars, aggVars, rangeVars>>

\* ============================================= BaseHACard: _subscribe
\* The card as a custom element: connectedCallback, disconnectedCallback, the
\* hass setter and _subscribe with its backend request.  The config is set
\* before the first hass, as the host does.

CardInit ==
    /\ FetchIdle
    /\ TimersIdle
    /\ AggIdle
    /\ RegIdle
    /\ PairIdle
    /\ EntIdle
    /\ RangeIdle
    /\ hasHass = FALSE
    /\ hasEntities \in BOOLEAN
    /\ domState = "new"
    /\ subscribeId = 0
    /\ unsubscribeRef = NoSub
    /\ subRequests = {}
    /\ createdSubs = {}
    /\ activeSubs = {}
    /\ unsubCalls = [r \in SubIds |-> 0]

\* A call of the backend unsubscribe function of subscription r.
CallUnsubscribe(calls_, r) == [calls_ EXCEPT ![r] = @ + 1]

\* _subscribe up to its await, with this._hass as given: return without
\* hass; else take the next subscribe id, call and forget this._unsubscribe,
\* and send the request unless there is no entity.
subscribe_(hass) ==
    IF ~hass
      THEN UNCHANGED <<subscribeId, unsubscribeRef, subRequests, activeSubs,
                       unsubCalls>>
      ELSE /\ subscribeId < MaxSubscribes
           /\ subscribeId' = subscribeId + 1
           /\ IF unsubscribeRef # NoSub
                THEN /\ unsubCalls' = CallUnsubscribe(unsubCalls,
                                                      unsubscribeRef)
                     /\ activeSubs' = activeSubs \ {unsubscribeRef}
                ELSE UNCHANGED <<unsubCalls, activeSubs>>
           /\ unsubscribeRef' = NoSub
           /\ subRequests' = IF hasEntities
                               THEN subRequests \cup {subscribeId + 1}
                               ELSE subRequests

\* connectedCallback
ConnectedCallback ==
    /\ domState # "connected"
    /\ domState' = "connected"
    /\ subscribe_(hasHass)
    /\ UNCHANGED <<hasHass, hasEntities, createdSubs, regVars>>

\* disconnectedCallback: this._unsubscribe?.() and the listener Map cleared.
DisconnectedCallback ==
    /\ domState = "connected"
    /\ domState' = "disconnected"
    /\ IF unsubscribeRef # NoSub
         THEN /\ unsubCalls' = CallUnsubscribe(unsubCalls, unsubscribeRef)
              /\ activeSubs' = activeSubs \ {unsubscribeRef}
         ELSE UNCHANGED <<unsubCalls, activeSubs>>
    /\ listeners' = EmptyMap
    /\ lastOp' = [op |-> "clear", entityId |-> "none", arg |-> "none"]
    /\ UNCHANGED <<hasHass, hasEntities, subscribeId, unsubscribeRef,
                   subRequests, createdSubs, handles, delivered, notifyThrew>>

\* set hass: the first assignment calls _subscribe, later ones only store
\* the object.
SetHass ==
    /\ hasHass' = TRUE
    /\ IF ~hasHass
         THEN subscribe_(TRUE)
         ELSE UNCHANGED <<subscribeId, unsubscribeRef, subRequests,
                          activeSubs, unsubCalls>>
    /\ UNCHANGED <<hasEntities, domState, createdSubs, regVars>>

\* Variant of SubscribeResolves without the subscribe id check.
ResolveWithoutIdCheck(r) ==
    /\ r \in subRequests
    /\ subRequests' = subRequests \ {r}
    /\ createdSubs' = createdSubs \cup {r}
    /\ unsubscribeRef' = r
    /\ activeSubs' = activeSubs \cup {r}
    /\ UNCHANGED unsubCalls
    /\ UNCHANGED <<hasHass, hasEntities, domState, subscribeId, regVars>>

\* subscribeMessage of call r resolves: the backend subscription exists; the
\* latest call keeps its unsubscribe function, a stale call calls it.
SubscribeResolves(r) ==
    /\ r \in subRequests
    /\ subRequests' = subRequests \ {r}
    /\ createdSubs' = createdSubs \cup {r}
    /\ IF r = subscribeId
         THEN /\ unsubscribeRef' = r
              /\ activeSubs' = activeSubs \cup {r}
              /\ UNCHANGED unsubCalls
         ELSE /\ unsubCalls' = CallUnsubscribe(unsubCalls, r)
              /\ UNCHANGED <<unsubscribeRef, activeSubs>>
    /\ UNCHANGED <<hasHass, hasEntities, domState, subscribeId, regVars>>

\* subscribeMessage of call r rejects: nothing was created.
SubscribeRejects(r) ==
    /\ r \in subRequests
    /\ subRequests' = subRequests \ {r}
    /\ UNCHANGED <<hasHass, hasEntities, domState, subscribeId,
                   unsubscribeRef, createdSubs, activeSubs, unsubCalls,
                   regVars>>

\* A consumer of the card registers listener c1 for entity id.
CardListens(id) ==
    /\ Subscribe(id, "c1")
    /\ UNCHANGED cardVars

cardFrame == <<vars, timerVars, aggVars, pairVars, entVars, rangeVars>>

CardNext ==
    \/ ConnectedCallback /\ UNCHANGED cardFrame
    \/ DisconnectedCallback /\ UNCHANGED cardFrame
    \/ SetHass /\ UNCHANGED cardFrame
    \/ \E r \in subRequests : SubscribeResolves(r) /\ UNCHANGED cardFrame
    \/ \E r \in subRequests : SubscribeRejects(r) /\ UNCHANGED cardFrame
    \/ \E id \in RegEntities : CardListens(id) /\ UNCHANGED cardFrame

CardSpec == CardInit /\ [][CardNext]_<<regVars, cardVars>>

\* ------------------------------------------------------ step descriptions
\* The step completes pending call f of the mounted consumer.
Completes(f) ==
    /\ mounted /\ mounted'
    /\ f \in inflight
    /\ inflight' = inflight \ {f}

\* The step is a doFetch call.
StartsFetch == mounted /\ mounted' /\ fetchIdRef' = fetchIdRef + 1

\* The step is the first render of the consumer.
Mounts == ~mounted /\ mounted'

\* ----------------------------------------------------------------- claims

\* C1: once every fetch issued by the consumer has completed, in whatever
\* order, and the last-issued fetch resolved, data is the result of the
\* last-issued fetch.
C1_LastIssuedWins ==
    (mounted /\ inflight = {} /\ lastOutcome \in Values) => data = lastOutcome

\* C1 witness: two fetches were issued, the first resolved after the second
\* had completed and with another result, and all have completed.
C1_Witness ==
    /\ mounted /\ inflight = {} /\ fetchIdRef >= 2
    /\ lastOutcome \in Values /\ data = lastOutcome
    /\ lateResult \in Values /\ lateResult # lastOutcome

\* C2 (as stated): a fetch that resolves while its token is current writes the
\* result to data and to the cache entry of its key, marks data fresh and
\* clears isFetching in that one step.
C2_CommitWritesDataAndCache ==
    [][\A f \in inflight :
         (Completes(f) /\ f.id = fetchIdRef /\ lastOutcome' \in Values) =>
            /\ data' = lastOutcome'
            /\ storage' = [storage EXCEPT ![f.key] = CacheEntry(lastOutcome', now)]
            /\ isFresh'
            /\ ~isFetching']_vars

\* C2 (amended): the same, the cache entry being written unless localStorage
\* throws, in which case localStorage is left as it was.
C2_CommitWritesDataAndCacheUnlessStorageFails ==
    [][\A f \in inflight :
         (Completes(f) /\ f.id = fetchIdRef /\ lastOutcome' \in Values) =>
            /\ data' = lastOutcome'
            /\ storage' = IF storageFails
                            THEN storage
                            ELSE [storage EXCEPT
                                    ![f.key] = CacheEntry(lastOutcome', now)]
            /\ isFresh'
            /\ ~isFetching']_vars

\* C2 witness: the current-token fetch has resolved and its result is in data
\* and in the cache entry of its key, stamped with the current time.
C2_Witness ==
    /\ mounted /\ lastOutcome \in Values /\ dataOrigin.src = "fetch"
    /\ data = lastOutcome /\ isFresh /\ ~isFetching
    /\ storage[dataOrigin.key] = CacheEntry(lastOutcome, now)
    /\ now > 0

\* C3: a fetch that rejects while its token is current sets the error and
\* clears isFetching, and leaves data, isFresh and localStorage as they were.
C3_FailureKeepsData ==
    [][\A f \in inflight :
         (Completes(f) /\ f.id = fetchIdRef /\ lastOutcome' = "failed") =>
            /\ error' = FetchError
            /\ ~isFetching'
            /\ data' = data
            /\ isFresh' = isFresh
            /\ storage' = storage]_vars

\* C3 witness: the last-issued fetch has failed and the last good value is
\* still shown, with the error.
C3_Witness ==
    /\ mounted /\ lastOutcome = "failed" /\ error = FetchError
    /\ ~isFetching /\ data # Absent /\ inflight = {}

\* C4 (as stated): status is ready only when data is present and fresh and no
\* fetch is outstanding.
C4_ReadyOnlyWhenFresh ==
    (mounted /\ status = "ready") => (data # Absent /\ isFresh /\ ~isFetching)

\* C5 (as stated): a consumer whose cache lookup missed and that has had no
\* successful fetch has data absent and status loading, before its first
\* fetch is started and after its first fetch has failed.
C5_CacheMissIsLoading ==
    (/\ mounted
     /\ dataOrigin.src = "none"
     /\ \/ fetchIdRef = 0
        \/ fetchIdRef = 1 /\ lastOutcome = "failed")
    => (data = Absent /\ status = "loading")

\* What the status is while a fetch is in flight, by where data came from.
StatusWhileFetching ==
    CASE dataOrigin.src = "none" -> "loading"
      [] dataOrigin.src = "cache" -> "cached"
      [] dataOrigin.src = "fetch" -> "refreshing"

C7_CachedOnlyFromCacheHitOfCurrentKey ==
    (mounted /\ status = "cached") =>
        (dataOrigin.src = "cache" /\ dataOrigin.key = cacheKey)

\* C8 (as stated): the render that first observes a key, on mount or on a key
\* change of the mounted consumer, leaves data equal to what the Cache Store
\* returns for that key, and has started no fetch.
C8_SeededOnFirstObservation ==
    [][/\ Mounts =>
            /\ data' = loadFromCache(storage, cacheKey', now, storageFails).ret
            /\ fetchIdRef' = 0
       /\ (mounted /\ mounted' /\ cacheKey' # cacheKey
           /\ cacheKey' \notin observed) =>
            /\ data' = loadFromCache(storage, cacheKey', now, storageFails).ret
            /\ fetchIdRef' = fetchIdRef]_vars

\* The cache entry of key k changes from absent to present only by the save of
\* a committing fetch.
AbsentUntilSave ==
    \A k \in Keys :
        (storage[k] = NoEntry /\ storage'[k] # NoEntry) =>
            \E f \in inflight :
                /\ Completes(f) /\ f.key = k /\ f.id = fetchIdRef
                /\ storage'[k] = CacheEntry(lastOutcome', now)

C10_LoadFailsSoft ==
    [][Mounts =>
         /\ ~renderThrew'
         /\ (storageFails \/ storage[cacheKey'].kind = "corrupt") =>
              (data' = Absent /\ storage' = storage)]_vars

\* C10 witness: the first render has read an item that is not a serialized
\* entry: data is absent and the item is still stored.
C10_Witness ==
    /\ mounted /\ fetchIdRef = 0 /\ effectPending /\ ~renderThrew
    /\ storage[cacheKey] = Corrupt /\ data = Absent

\* C11: when localStorage throws during the commit of a resolved
\* current-token fetch, data still becomes the result and is marked fresh,
\* isFetching is cleared, the error stays absent and localStorage is left as
\* it was.
C11_SaveFailureAbsorbed ==
    [][\A f \in inflight :
         (/\ Completes(f) /\ f.id = fetchIdRef /\ lastOutcome' \in Values
          /\ storageFails) =>
            /\ data' = lastOutcome'
            /\ isFresh'
            /\ ~isFetching'
            /\ error' = NoError
            /\ storage' = storage]_vars

\* C11 witness: a fetch has committed v2 while localStorage was throwing: the
\* consumer shows v2, fresh and without error, and the cache entry of its key
\* does not hold v2.
C11_Witness ==
    /\ mounted /\ storageFails /\ inflight = {} /\ fetchIdRef = 1
    /\ lastOutcome = "v2" /\ data = "v2" /\ isFresh /\ ~isFetching
    /\ error = NoError
    /\ storage[dataOrigin.key].data # "v2"

\* ------------------------------------------------------------------ C12
\* C12: a burst of N >= 1 notifications for the subscribed entity, each less
\* than 500 ms after the previous one, triggers exactly one refetch, 500 ms
\* after the last notification.  Until then exactly one debounce timer is
\* pending, with that deadline, and the burst has triggered nothing; from
\* then on the burst has triggered one refetch and no debounce timer is left.
DebounceTimers == {t \in timers : t.kind = "debounce"}

C12_OneRefetchPerBurst ==
    (subscribed /\ burstLen >= 1) =>
        \/ /\ burstFires = 0
           /\ now <= lastPushAt + DebounceMs
           /\ DebounceTimers = {Timer("debounce", lastPushAt + DebounceMs)}
        \/ /\ burstFires = 1
           /\ now >= lastPushAt + DebounceMs
           /\ DebounceTimers = {}

C12_Witness ==
    /\ subscribed
    /\ burstLen = 3
    /\ burstFires = 1
    /\ lastTrigger = "debounce"
    /\ now = lastPushAt + DebounceMs

\* ------------------------------------------------------------------ C13
\* The refetch issued by the latest debounce firing has not completed.
DebounceRefetchInFlight ==
    /\ mounted
    /\ lastTrigger = "debounce"
    /\ \E f \in inflight : f.id = fetchIdRef

CacheRead == loadFromCache(storage, cacheKey, now, storageFails).ret

HourlyTimers == {t \in timers : t.kind = "hourly"}

\* u is a full hour of local time.
HourBoundary(u) == LocalTime(u) % HourMs = 0

\* C17: while the consumer is subscribed exactly one hourly timer is pending;
\* it is due at a full hour of local time, after a delay that was positive
\* and at most one hour when it was armed, so that every full hour gets its
\* refetch and no other instant does.
C17_HourlyAtNextBoundary ==
    subscribed =>
        /\ Cardinality(HourlyTimers) = 1
        /\ \A t \in HourlyTimers :
              /\ HourBoundary(t.at)
              /\ t.at >= now
              /\ t.at - now <= HourMs
              /\ t.at = hourlyTimerRef

\* ------------------------------------------------------------------ C18
\* C18: the teardown of the consumer cancels its debounce timer and its
\* hourly timer, whatever was pending: once the consumer is gone no timer is
\* left, no timer callback runs and no fetch is issued.
C18_NoTimerAfterTeardown ==
    [][/\ ~mounted' => timers' = {}
       /\ (~mounted /\ ~mounted') =>
              /\ fetchIdRef' = fetchIdRef
              /\ lastTrigger' = lastTrigger
              /\ burstFires' = burstFires
      ]_<<vars, timerVars>>

\* The consumer was torn down with both timers pending, and the deadline of
\* the debounce timer has passed since.
C18_Witness ==
    /\ ~mounted
    /\ fetchIdRef >= 1
    /\ burstLen >= 1
    /\ burstFires = 0
    /\ now > lastPushAt + DebounceMs
    /\ timers = {}

\* ------------------------------------------------------------------ C14
\* The step on which the fetcher of a fetch over n >= 1 sources, issued with
\* the connection present, settles.
SettlesMultiSource == fetcherPhase = "waiting" /\ fetcherPhase' = "idle"

Positions == 1..Len(entityIds)
Answered == {i \in Positions : requests[i] = "ok"}
Failed == {i \in Positions : requests[i] = "failed"}

\* The items of list d that carry source id.
ItemsOf(d, id) ==
    LET FromId(it) == it.calendarId = id IN SelectSeq(d, FromId)

\* C14: when k of the n source requests have rejected, the aggregate still
\* resolves: the error stays absent, the committed list holds the items of
\* each answering source, and no item of a failed source.
C14_FailedSourcesAbsorbed ==
    [][SettlesMultiSource =>
          /\ error' = NoError
          /\ ~isFetching'
          /\ isFresh'
          /\ \A i \in Answered :
                Len(ItemsOf(data', entityIds[i])) = Len(responses[i])
          /\ \A i \in Failed : ItemsOf(data', entityIds[i]) = <<>>
          /\ \A j \in 1..Len(data') :
                \E i \in Answered : data'[j].calendarId = entityIds[i]
      ]_<<vars, aggVars>>

\* A fetch over three sources of which the second failed has settled.
C14_Witness ==
    /\ fetcherPhase = "idle"
    /\ requests = <<"ok", "failed", "ok">>
    /\ responses[1] = <<"e1">>
    /\ responses[3] = <<"e2", "e1">>
    /\ error = NoError
    /\ isFresh
    /\ Len(data) = 3

\* ------------------------------------------------------------------ C15
\* The position of source id in entityIds.
PositionOf(id) == CHOOSE i \in Positions : entityIds[i] = id

\* C15: the committed list is the concatenation of the per-source lists in
\* the order of entityIds, whatever the order in which the requests ended:
\* items of an earlier source come first, the items of one source keep the
\* order in which it returned them, and each carries the id of its source.
C15_ConcatenationInSourceOrder ==
    [][SettlesMultiSource =>
          /\ isFresh'
          /\ \A j, k \in 1..Len(data') :
                j < k => PositionOf(data'[j].calendarId)
                           <= PositionOf(data'[k].calendarId)
          /\ \A i \in Answered :
                ItemsOf(data', entityIds[i])
                  = [k \in 1..Len(responses[i]) |->
                       [event |-> responses[i][k],
                        calendarId |-> entityIds[i]]]
      ]_<<vars, aggVars>>

\* Three sources answered in the order third, first, second.
C15_Witness ==
    /\ fetcherPhase = "idle"
    /\ order = <<3, 1, 2>>
    /\ requests = <<"ok", "ok", "ok">>
    /\ isFresh
    /\ error = NoError
    /\ Len(data) >= 3
    /\ data[1].calendarId = entityIds[1]
    /\ data[Len(data)].calendarId = entityIds[3]

\* ------------------------------------------------------------------ C16
\* C16 as stated: a fetch with an empty entityIds list ends with an empty
\* result and without a backend request, whether or not the connection is
\* present.
C16_EmptyListGivesEmptyResult ==
    (mounted /\ Len(entityIds) = 0 /\ fetchIdRef >= 1 /\ inflight = {}) =>
        /\ issued = 0
        /\ error = NoError
        /\ isFresh
        /\ data = <<>>

\* C16, amended: a fetch with an empty entityIds list sends no backend
\* request; issued with the connection present it commits the empty list,
\* issued with the connection absent it fails with the connection error and
\* leaves data and cache as they were.
C16_EmptyListWithConnection ==
    [][(Len(entityIds) = 0) =>
          /\ issued' = 0
          /\ StartsFetch =>
                fetcherPhase' = IF connection THEN "empty" ELSE "threw"
          /\ (fetcherPhase = "empty" /\ fetcherPhase' = "idle") =>
                /\ error' = NoError
                /\ isFresh'
                /\ data' = <<>>
          /\ (fetcherPhase = "threw" /\ fetcherPhase' = "idle") =>
                /\ error' = FetchError
                /\ data' = data
                /\ isFresh' = isFresh
                /\ storage' = storage
      ]_<<vars, aggVars>>

\* With an empty list, a first fetch committed the empty list and a second
\* one, issued without connection, failed.
C16_Witness ==
    /\ Len(entityIds) = 0
    /\ fetchIdRef = 2
    /\ inflight = {}
    /\ isFresh
    /\ data = <<>>
    /\ error = FetchError
    /\ issued = 0

\* ------------------------------------------------------------------ C19
\* The listeners registered for id, in insertion order.
ListenersOf(id) == IF id \in DOMAIN listeners THEN listeners[id] ELSE <<>>

\* C19: a notification for an entity id calls every listener registered for
\* that id exactly once, with the notified value, and calls nothing else;
\* without a listener for the id it calls nothing.
C19_NotifyReachesExactlyTheListeners ==
    lastOp.op = "notify" =>
        LET ls == ListenersOf(lastOp.entityId)
        IN  /\ \A i \in 1..Len(ls) :
                  Cardinality({k \in 1..Len(delivered) :
                                 delivered[k].callback = ls[i]}) = 1
            /\ \A k \in 1..Len(delivered) :
                  /\ delivered[k].value = lastOp.arg
                  /\ \E i \in 1..Len(ls) : ls[i] = delivered[k].callback

\* ------------------------------------------------------------------ C20
\* Listener cb is registered for id in Map m.
Registered(m, id, cb) ==
    /\ id \in DOMAIN m
    /\ \E i \in 1..Len(m[id]) : m[id][i] = cb

\* C20: the registry never maps an entity id to an empty listener set, and a
\* call of an unsubscribe closure removes the registration it was returned
\* for (the listener under that id) and leaves every other registration, of
\* other listeners and under other ids, as it was.
C20_NoEmptySetExactRemoval ==
    [][/\ \A id \in DOMAIN listeners' : Len(listeners'[id]) > 0
       /\ lastOp'.op = "unsubscribe" =>
             /\ ~Registered(listeners', lastOp'.entityId, lastOp'.arg)
             /\ \A id \in RegEntities, cb \in Callbacks :
                   (<<id, cb>> # <<lastOp'.entityId, lastOp'.arg>>) =>
                       (Registered(listeners', id, cb)
                          <=> Registered(listeners, id, cb))
      ]_regVars

\* The last listener of sensor.a was unsubscribed, which removed the entry of
\* sensor.a, while the same listener and another one stay registered for
\* sensor.b.
C20_Witness ==
    /\ lastOp = [op |-> "unsubscribe", entityId |-> "sensor.a", arg |-> "c1"]
    /\ DOMAIN listeners = {"sensor.b"}
    /\ listeners["sensor.b"] = <<"c1", "c2">>
    /\ [entityId |-> "sensor.a", callback |-> "c1"] \in handles

\* ------------------------------------------------------------------ C21
\* C21: when a listener of the notified entity id throws, every other
\* listener registered for that id is still called with the notified value.
C21_ThrowingListenerIsolated ==
    (lastOp.op = "notify" /\ notifyThrew) =>
        LET ls == ListenersOf(lastOp.entityId)
        IN  \A i \in 1..Len(ls) :
               ~Throws(ls[i]) =>
                   \E k \in 1..Len(delivered) :
                       delivered[k] = [callback |-> ls[i],
                                       value |-> lastOp.arg]

\* ------------------------------------------------------------------ C22
\* C22: a fetch issued while the connection is absent sends no backend
\* request and ends with the error set and the in-flight flag cleared; data,
\* freshness and the cache entry stay as they were, and its completion issues
\* no further fetch.
C22_NoConnectionFailsWithoutRetry ==
    [][/\ (StartsFetch /\ ~connection) =>
              /\ fetcherPhase' = "threw"
              /\ issued' = issued
              /\ requests' = <<>>
       /\ (fetcherPhase = "threw" /\ fetcherPhase' = "idle") =>
              /\ error' = FetchError
              /\ ~isFetching'
              /\ data' = data
              /\ isFresh' = isFresh
              /\ storage' = storage
              /\ issued' = issued
              /\ fetchIdRef' = fetchIdRef
              /\ inflight' = {}
      ]_<<vars, aggVars>>

\* A first fetch over two sources committed its events; the connection went
\* away, and the second fetch failed without a request.
C22_Witness ==
    /\ Len(entityIds) = 2
    /\ ~connection
    /\ fetchIdRef = 2
    /\ inflight = {}
    /\ fetcherPhase = "idle"
    /\ error = FetchError
    /\ ~isFetching
    /\ isFresh
    /\ Len(data) >= 1
    /\ issued = 2

\* ------------------------------------------------------------------ C23
\* The step issues or completes call f.
IssuesOrCompletes(f) == (f \in calls) # (f \in calls')

\* What a consumer shows: data, status and error.
Shown(h) ==
    [data |-> h.data, status |-> Status(h.data, h.isFresh, h.isFetching),
     error |-> h.error]

\* C23: issuing, completing or failing a fetch for one key leaves data,
\* status and error of every consumer of another key, and the cache entry of
\* every other key, unchanged.
C23_FetchStateIsolatedPerKey ==
    [][\A f \in calls \cup calls' :
          IssuesOrCompletes(f) =>
              /\ \A c \in Consumers :
                    (hooks[c].mounted /\ hooks[c].key # f.key) =>
                        Shown(hooks'[c]) = Shown(hooks[c])
              /\ \A k \in Keys \ {f.key} : storage'[k] = storage[k]
      ]_<<storage, pairVars>>

\* The fetch of A for k1 failed while B, on k2, shows and caches its result.
C23_Witness ==
    /\ hooks["A"].mounted /\ hooks["A"].key = "k1"
    /\ hooks["A"].error = FetchError
    /\ hooks["A"].data = Absent
    /\ hooks["B"].mounted /\ hooks["B"].key = "k2"
    /\ hooks["B"].data = "v2" /\ hooks["B"].isFresh
    /\ hooks["B"].error = NoError
    /\ storage["k2"].data = "v2"
    /\ storage["k1"] = NoEntry
    /\ calls = {}

\* ------------------------------------------------------------------ C24
\* C24: once a state of its entity id has been pushed, a mounted useEntity
\* consumer returns the state carried by the latest notification for that
\* id, whatever was pushed for other ids.
C24_ReturnsLatestPushedState ==
    (entMounted /\ lastPushed[entId] # "none") => entity = lastPushed[entId]

\* ------------------------------------------------------------------ C25
\* The cache item of key k holds value v.
Caches(st, k, v) == st[k].kind = "entry" /\ st[k].data = v

C26_StaleCompletionIsNoOp ==
    [][/\ \A f \in inflight :
            (Completes(f) /\ f.id # fetchIdRef) =>
                /\ data' = data
                /\ isFresh' = isFresh
                /\ error' = error
                /\ isFetching' = isFetching
                /\ storage' = storage
       /\ \A f \in inflight :
            ( /\ Completes(f)
              /\ \/ data' # data
                 \/ isFresh' # isFresh
                 \/ storage' # storage ) =>
                /\ f.id = fetchIdRef
                /\ \A g \in inflight : g.id <= f.id
       /\ (mounted /\ mounted') => fetchIdRef' >= fetchIdRef
      ]_vars

\* The second call committed v2 and saved it; the first call then resolved
\* with v1 and left everything as it was.
C26_Witness ==
    /\ mounted
    /\ inflight = {}
    /\ fetchIdRef = 2
    /\ lateResult = "v1"
    /\ data = "v2"
    /\ isFresh
    /\ ~isFetching
    /\ error = NoError
    /\ storage[cacheKey] = CacheEntry("v2", 0)

\* ------------------------------------------------------------------ C27
\* Both consumers are mounted on key k and no call for k is pending.
BothSettledOn(k) ==
    /\ \A c \in Consumers : hooks[c].mounted /\ hooks[c].key = k
    /\ \A f \in calls : f.key # k

\* C27: when two consumers observe the same key and the calls of both have
\* completed, the cache item of the key holds the result of the call that
\* was issued last for the key, if that call resolved.
C27_CacheHoldsLastIssuedForKey ==
    \A k \in Keys :
        (BothSettledOn(k) /\ lastFor[k].outcome \in Values) =>
            Caches(storage, k, lastFor[k].outcome)

\* ------------------------------------------------------------------ C28
\* C28: the completion of a call whose consumer has been torn down writes
\* neither the consumer's hook state nor the cache.
C28_NoCommitAfterTeardown ==
    [][\A f \in calls :
          (f \notin calls' /\ ~hooks[f.owner].mounted) =>
              /\ hooks' = hooks
              /\ storage' = storage
      ]_<<storage, pairVars>>

\* ------------------------------------------------------------------ C29
rangeAll == <<vars, timerVars, aggVars, rangeVars>>

\* The step completes call f of the date-range consumer and f commits.
RangeCommits(f) ==
    /\ f \in inflight
    /\ f \notin inflight'
    /\ f.id = fetchIdRef

\* The commit is that of the fetch a debounce timer issued.
DebounceCommits(f) == RangeCommits(f) /\ lastTrigger = "debounce"

\* The step is the firing of the debounce timer.
DebounceFiring == debounceTimerRef # NoTimer /\ debounceTimerRef' = NoTimer

\* The cache holds an entry for range r and for no other range.
OnlyRange(c, r) ==
    /\ c[r] # Absent
    /\ \A q \in DateRanges \ {r} : c[q] = Absent

\* What the firing and every step that is no commit do to the cache: the
\* firing marks it, and nothing but a commit changes an entry.
MarkedNotCleared ==
    /\ DebounceFiring => (shouldInvalidateCacheRef' /\ cacheRef' = cacheRef)
    /\ cacheRef' # cacheRef => \E f \in inflight : RangeCommits(f)
    /\ \A f \in inflight :
          (f \notin inflight' /\ f.id # fetchIdRef) =>
              /\ cacheRef' = cacheRef
              /\ shouldInvalidateCacheRef' = shouldInvalidateCacheRef
    /\ (~connection /\ error' = FetchError /\ inflight' = inflight) =>
          cacheRef' = cacheRef

\* C29 (as stated): a debounced entity change marks the cache; when the fetch
\* it issued commits, the cache holds the range that is current at that
\* moment and nothing else; until then the entries stay, and a superseded or
\* failed fetch clears nothing.
C29_CommitLeavesOnlyCurrentRange ==
    [][/\ MarkedNotCleared
       /\ \A f \in inflight :
            DebounceCommits(f) => OnlyRange(cacheRef', dateRangeKey)
      ]_rangeAll

\* C29 (amended): as above, but the one entry the commit leaves is that of
\* the range the fetch was issued for, holding its events, and the mark is
\* taken off.
C29_CommitLeavesOnlyFetchedRange ==
    [][/\ MarkedNotCleared
       /\ \A f \in inflight :
            DebounceCommits(f) =>
                /\ shouldInvalidateCacheRef
                /\ OnlyRange(cacheRef', f.key)
                /\ cacheRef'[f.key] = events'
                /\ ~shouldInvalidateCacheRef'
      ]_rangeAll

\* The fetch of a debounce timer committed for r2 and removed the entry of
\* r1, after the consumer had gone back to r1: r1 now misses the cache.
C29_Witness ==
    /\ mounted
    /\ lastTrigger = "debounce"
    /\ inflight = {}
    /\ lastCleared = DateRanges
    /\ OnlyRange(cacheRef, "r2")
    /\ ~shouldInvalidateCacheRef
    /\ dateRangeKey = "r1"
    /\ effectiveEvents = Absent

\* ------------------------------------------------------------------ C30
\* isFetching is true exactly while the call issued last is pending, whatever
\* superseded calls are pending or have completed.
FlagTracksLastIssued ==
    mounted => (isFetching <=> \E f \in inflight : f.id = fetchIdRef)

LastIssuedFailed ==
    /\ fetchIdRef > 0
    /\ \A f \in inflight : f.id # fetchIdRef
    /\ lastOutcome = "failed"

\* C31: the error is set exactly when the call issued last has completed
\* with a failure; issuing a call clears it, and the completion of a
\* superseded call, failure included, leaves it as it is.
C31_ErrorFollowsLastIssued ==
    /\ [](mounted => (error # NoError <=> LastIssuedFailed))
    /\ [][/\ StartsFetch => error' = NoError
          /\ \A f \in inflight :
                (Completes(f) /\ f.id # fetchIdRef) => error' = error
         ]_vars

\* The second call has failed and set the error while the first, superseded
\* call is still pending.
C31_Witness ==
    /\ mounted
    /\ fetchIdRef = 2
    /\ inflight = {[id |-> 1, key |-> cacheKey]}
    /\ error = FetchError
    /\ lastOutcome = "failed"
    /\ ~isFetching

\* ------------------------------------------------------------------ C32
\* C32: the data a mounted consumer returns is absent or belongs to its
\* current key: it was read from the cache under that key or fetched for it.
C32_DataBelongsToCurrentKey ==
    (mounted /\ data # Absent) => dataOrigin.key = cacheKey

\* ------------------------------------------------------------------ C33
\* C33: the completion of a call writes the cache only under the key the call
\* was issued for, and when the consumer's key has changed since, it leaves
\* the data shown for the new key as it is.
C33_ResultStaysWithItsKey ==
    [][\A f \in inflight :
          Completes(f) =>
              /\ \A k \in Keys \ {f.key} : storage'[k] = storage[k]
              /\ f.key # cacheKey => (data' = data /\ isFresh' = isFresh)
      ]_vars

\* The half of C33 about the cache alone holds.
SavedUnderIssuedKey ==
    [][\A f \in inflight :
          Completes(f) => \A k \in Keys \ {f.key} : storage'[k] = storage[k]
      ]_vars

\* ------------------------------------------------------------------ C34
\* Status asks of data only whether it is present; a committed list, empty
\* or not, is present data.
ListAsData == "v1"

C35_OneTimerOfEachKind ==
    /\ [](Cardinality(DebounceTimers) <= 1 /\ Cardinality(HourlyTimers) <= 1)
    /\ [][/\ pushCount' = pushCount + 1 =>
                /\ DebounceTimers' = {Timer("debounce", now + DebounceMs)}
                /\ HourlyTimers' = HourlyTimers
          /\ burstFires' = burstFires + 1 =>
                /\ DebounceTimers' = {}
                /\ HourlyTimers' = HourlyTimers
          /\ (HourlyTimers' # HourlyTimers /\ HourlyTimers' # {}) =>
                HourlyTimers' = {Timer("hourly", NextHour(now))}
         ]_<<vars, timerVars>>

\* A second notification of a burst has re-armed the debounce timer while
\* the hourly timer is pending: one timer of each kind.
C35_Witness ==
    /\ subscribed
    /\ burstLen = 2
    /\ burstFires = 0
    /\ now = lastPushAt
    /\ DebounceTimers = {Timer("debounce", now + DebounceMs)}
    /\ Cardinality(HourlyTimers) = 1

\* ------------------------------------------------------------------ C36
\* C36: while the consumer is mounted and its effects have run, exactly one
\* hourly timer is pending, also after a change of the entity id, of the
\* forecast type or of the subscribe function.
C36_HourlyTimerAlwaysPending ==
    (mounted /\ subscribed) => Cardinality(HourlyTimers) = 1

\* C37: for any interleaving of overlapping _subscribe calls, once no
\* subscribeMessage request is pending, at most one backend subscription is
\* active, it is the one of the last-issued call, and every subscription
\* created by an earlier call has had its unsubscribe function called.
C37_OnlyLastSubscriptionSurvives ==
    subRequests = {} =>
        /\ activeSubs \subseteq {subscribeId}
        /\ \A r \in createdSubs \ {subscribeId} :
               unsubCalls[r] >= 1 /\ r \notin activeSubs

\* Two calls overlapped, both requests resolved, the earlier one out of
\* order, and only the later subscription is active.
C37_Witness ==
    /\ subRequests = {}
    /\ createdSubs = {1, 2}
    /\ subscribeId = 2
    /\ activeSubs = {2}
    /\ unsubscribeRef = 2
    /\ unsubCalls[1] = 1

\* The three parts of C38, each on its own.
NoSubscriptionAfterDisconnect == domState = "disconnected" => activeSubs = {}

ListenersClearedOnDisconnect ==
    [][domState' = "disconnected" /\ domState = "connected"
           => listeners' = EmptyMap]_<<regVars, cardVars>>

UnsubscribeCalledAtMostOnce == \A r \in SubIds : unsubCalls[r] <= 1

\* C38: after disconnectedCallback no backend subscription of the card is
\* active and no listener is registered, also when a _subscribe request was
\* in flight at the disconnect; and over connect, disconnect and hass
\* assignments every backend unsubscribe function is called at most once.
C38_DisconnectEndsSubscriptions ==
    /\ []NoSubscriptionAfterDisconnect
    /\ ListenersClearedOnDisconnect
    /\ []UnsubscribeCalledAtMostOnce

\* The entity a mounted consumer returns is absent or a state of its id.
ReturnsStateOfItsId == entMounted => (entity = Absent \/ entityOf = entId)

\* The first render returns the snapshot state of the id, else the cached
\* value under entity:<id>.
InitialValueFromSnapshotOrCache ==
    [][(~entMounted /\ entMounted') =>
          entity' = IF hassStates[entId'] # Absent
                      THEN hassStates[entId']
                      ELSE loadFromCache(storage, EntityKey(entId'), now,
                                         storageFails).ret
      ]_<<storage, regVars, entVars>>

\* C39: useEntity(id) returns absent or the state of the entity named id:
\* at first the snapshot state of id, else the cached value under
\* entity:<id>; after the id of a mounted consumer changes it does not keep
\* returning the state of the previous id.
C39_ReturnsOnlyStateOfItsId ==
    /\ []ReturnsStateOfItsId
    /\ InitialValueFromSnapshotOrCache

====
